---------------------------- MODULE Spec2Model ----------------------------
(***************************************************************************)
(* Transmitter Check App (src/src/App.jsx): the App view state machine,    *)
(* the InspectionChecklist wizard with its SignaturePad, the ReviewSubmit  *)
(* page with its two 1200 ms timers, and the DataProvider (CRUD over the   *)
(* transmitter list, debounced localStorage write, online/offline flag),    *)
(* and the DeviceList with its debounced search, its filters and modals.   *)
(*                                                                         *)
(* Strings the code only compares or measures are TLA+ strings; strings    *)
(* the code scans character by character (regular expressions, trim) are  *)
(* sequences of one-character strings.                                     *)
(***************************************************************************)
EXTENDS Integers, Sequences, FiniteSets, TLC

VARIABLES
    \* App (App.jsx 914-917)
    currentView, selectedDevice, inspectionData, showSuccessModal,
    \* InspectionChecklist (App.jsx 763-766), mounted iff currentView = "inspection"
    currentStep, checklistData, signature, photos,
    \* the photo id last made by this wizard instance (App.jsx 781): Date.now() +
    \* Math.random() never decreases, and two loads of one millisecond can round to one
    \* number
    photoClock,
    \* FileReaders started by handlePhotoUpload and not yet loaded (App.jsx 779-783)
    pendingReads,
    \* window.alert calls made by the wizard (App.jsx 795, 833): the last message shown
    lastAlert,
    \* number of data-entry events so far: checkbox changes, notes changes and files
    \* handed to the photo input (bounded by MaxEntered)
    entered,
    \* SignaturePad (App.jsx 349-350), mounted iff the documentation step is shown
    isDrawing, canvas,
    \* ReviewSubmit (App.jsx 854), mounted iff currentView = "review"
    isSubmitting,
    \* number of runs of handleSubmit in the ReviewSubmit on screen, that is, for the
    \* inspection under review (App.jsx 856)
    submitted,
    \* handleSubmit continuations of ReviewSubmit instances that were unmounted
    \* while their 1200 ms promise was pending (App.jsx 858-859)
    orphanSubmits,
    \* pending 1200 ms reset timeouts of handleSubmitInspection (App.jsx 924-929)
    resetTimers,
    \* DataProvider (App.jsx 104-112)
    transmitters, isOnline, pendingSync, saveTimer,
    \* localStorage['transmitters'] and the console.warn of a failed write
    storage, saveWarned,
    \* pending 1200 ms "pretend to sync" timeouts (App.jsx 119)
    syncTimers,
    \* DeviceList modals (App.jsx 613-615) and CreateEditTransmitterModal errors (460)
    showCreateModal, editingDevice, deletingDevice, errors,
    \* DeviceList search and filters (App.jsx 609-612, 617)
    searchTerm, debouncedSearch, showFilters, filterType, filterStatus,
    \* the terms of the pending 250 ms search timeouts (App.jsx 616, 619-623)
    searchTimer,
    \* number of setTransmitters calls made so far (bounded by MaxOps)
    ops,
    \* what ReviewSubmit last rendered: the overall status and percentage and the counts
    \* per step (App.jsx 882-883, 901)
    rendered

appVars    == <<currentView, selectedDevice, inspectionData, showSuccessModal, entered>>
wizardVars == <<currentStep, checklistData, signature, photos, photoClock, pendingReads,
                lastAlert>>
padVars    == <<isDrawing, canvas>>
reviewVars == <<isSubmitting, submitted, orphanSubmits, resetTimers>>
dataVars   == <<transmitters, isOnline, pendingSync, saveTimer, storage, saveWarned,
                syncTimers, ops>>
searchVars == <<searchTerm, debouncedSearch, showFilters, filterType, filterStatus,
                searchTimer>>
listVars   == <<showCreateModal, editingDevice, deletingDevice, errors, searchVars>>
vars       == <<appVars, wizardVars, padVars, reviewVars, dataVars, listVars, rendered>>

\* JavaScript values: null, undefined, booleans and strings are tagged records, so that
\* they can be told apart from each other and from objects (records without a field t)
Null == [t |-> "null"]
Undefined == [t |-> "undefined"]
Bool(b) == [t |-> "boolean", v |-> b]
Str(cs) == [t |-> "string", v |-> cs]

\* JavaScript truthiness of null, undefined, a boolean or a string
\* (App.jsx 794, 842, 869, 873, 875, 901, 904)
Truthy(x) ==
    CASE x.t = "boolean" -> x.v
      [] x.t = "string" -> Len(x.v) > 0
      [] OTHER -> FALSE

Min(a, b) == IF a < b THEN a ELSE b
Max(a, b) == IF a > b THEN a ELSE b

--------------------------------------------------------------------------
(* Bounds of the model *)

\* pending 1200 ms timers (submit continuations + reset timeouts) at one time
MaxTimers == 2
\* line segments the canvas remembers
MaxSegs == 1
\* data-entry events (checkbox, notes, photo file) in one behaviour
MaxEntered == 2
\* setTransmitters calls in one behaviour
MaxOps == 1

--------------------------------------------------------------------------
(* Program data *)

\* App.jsx 64-101; the accuracy strings start with a plus-minus sign, written +- here
defaultTransmitters == <<
    [id |-> <<"P","T","-","0","0","1">>,
     name |-> <<"P","r","e","s","s","u","r","e"," ","T","r","a","n","s","m","i","t","t","e","r"," ","0","0","1">>,
     type |-> "Pressure", location |-> "Unit A - Reactor", status |-> "active",
     lastCalibration |-> <<"2","0","2","4","-","0","1","-","1","5">>,
     nextCalibrationDue |-> <<"2","0","2","5","-","0","1","-","1","5">>,
     healthIndicator |-> "good", range |-> "0-100 bar", accuracy |-> "+-0.1%"],
    [id |-> <<"F","T","-","0","0","2">>,
     name |-> <<"F","l","o","w"," ","T","r","a","n","s","m","i","t","t","e","r"," ","0","0","2">>,
     type |-> "Flow", location |-> "Unit B - Pipeline", status |-> "warning",
     lastCalibration |-> <<"2","0","2","3","-","0","8","-","2","0">>,
     nextCalibrationDue |-> <<"2","0","2","4","-","0","8","-","2","0">>,
     healthIndicator |-> "fair", range |-> "0-500 L/min", accuracy |-> "+-0.2%"],
    [id |-> <<"L","T","-","0","0","3">>,
     name |-> <<"L","e","v","e","l"," ","T","r","a","n","s","m","i","t","t","e","r"," ","0","0","3">>,
     type |-> "Level", location |-> "Tank C - Storage", status |-> "critical",
     lastCalibration |-> <<"2","0","2","3","-","0","6","-","1","0">>,
     nextCalibrationDue |-> <<"2","0","2","4","-","0","6","-","1","0">>,
     healthIndicator |-> "poor", range |-> "0-10 m", accuracy |-> "+-0.15%"] >>

\* App.jsx 756-760
checklistSteps == <<
    [id |-> "visual", items |-> <<
        [id |-> "housing", type |-> "checkbox"],
        [id |-> "connections", type |-> "checkbox"],
        [id |-> "cables", type |-> "checkbox"],
        [id |-> "mounting", type |-> "checkbox"] >>],
    [id |-> "functional", items |-> <<
        [id |-> "display", type |-> "checkbox"],
        [id |-> "response", type |-> "checkbox"],
        [id |-> "accuracy", type |-> "checkbox"],
        [id |-> "alarms", type |-> "checkbox"] >>],
    [id |-> "documentation", items |-> <<
        [id |-> "photos", type |-> "file"],
        [id |-> "notes", type |-> "textarea"],
        [id |-> "signature", type |-> "signature"] >>] >>

\* checklistSteps[currentStep] of a 0-based JavaScript array (App.jsx 802)
currentStepData(s) == checklistSteps[s + 1]

\* checklistSteps.length - 1 (App.jsx 790, 841)
LastStep == Len(checklistSteps) - 1

Views == {"dashboard", "devices", "device-detail", "inspection", "review"}

\* the elements of a sequence
Range(q) == {q[i] : i \in DOMAIN q}

--------------------------------------------------------------------------
(* InspectionChecklist: pure parts of the handlers *)

\* data.checklist?.[stepId]?.[itemId] (App.jsx 824, 827, 869, 873)
Lookup(cd, stepId, itemId) ==
    IF stepId \in DOMAIN cd /\ itemId \in DOMAIN cd[stepId]
        THEN cd[stepId][itemId]
        ELSE Undefined

\* mutant: the entries of the step are not spread into the new object
SetEntry_replaceStep(prev, stepId, itemId, value) ==
    [s \in DOMAIN prev \cup {stepId} |->
        IF s = stepId THEN [k \in {itemId} |-> value] ELSE prev[s]]

\* prev => ({ ...prev, [stepId]: { ...prev[stepId], [itemId]: value } }) (App.jsx 769, 773)
SetEntry(prev, stepId, itemId, value) ==
    LET old == IF stepId \in DOMAIN prev THEN prev[stepId] ELSE <<>>
        new == [k \in DOMAIN old \cup {itemId} |-> IF k = itemId THEN value ELSE old[k]]
    IN  [s \in DOMAIN prev \cup {stepId} |-> IF s = stepId THEN new ELSE prev[s]]

\* mutant: the clamp is off by one, the last step is never reached
nextStepOf_clampEarly(s) == Min(s + 1, Len(checklistSteps) - 2)

\* s => Math.min(s + 1, checklistSteps.length - 1) (App.jsx 790)
nextStepOf(s) == Min(s + 1, Len(checklistSteps) - 1)

\* s => Math.max(s - 1, 0) (App.jsx 791)
prevStepOf(s) == Max(s - 1, 0)

\* prev => prev.filter(photo => photo.id !== photoId) (App.jsx 788)
removePhotoOf(prev, photoId) == SelectSeq(prev, LAMBDA photo : photo.id # photoId)

\* canvas.toDataURL('image/png') (App.jsx 413): a PNG data URL of the canvas content
RECURSIVE Pixels(_)
Pixels(c) == IF c = 0 THEN "" ELSE Pixels(c - 1) \o "L"
toDataURL(c) == Str("data:image/png;base64,iVBORw0KGgo" \o Pixels(c))

\* inspectionSchema (App.jsx 43-49) on such an object: deviceId is a string, checklist a
\* record and photos an array by construction; inspector and signature are measured
inspectionSchemaOk(data) ==
    /\ Len(data.inspector) >= 3
    /\ data.signature.t = "string"
    /\ Len(data.signature.v) >= 10

\* the object handleComplete builds (App.jsx 798); the wall-clock timestamp, which no
\* operation reads back, is left out
InspectionOf(device, cd, ph, sig) ==
    [deviceId |-> device.id, checklist |-> cd, photos |-> ph, signature |-> sig,
     inspector |-> "Current User"]

--------------------------------------------------------------------------
(* Inputs of the user *)

\* texts typed into the notes textarea
NoteInputs == {<<>>, <<" ">>, <<"o", "k">>}

\* image files offered to the photo input
Files == {"a.jpg", "b.jpg"}

\* reader.readAsDataURL(file) (App.jsx 783): the data URL of a file
fileURL(f) == "data:image/jpeg;base64," \o f

--------------------------------------------------------------------------
(* Initial state: App, DataProvider and the first run of its effects *)

WizardInit ==
    /\ currentStep = 0
    /\ checklistData = <<>>
    /\ signature = Null
    /\ photos = <<>>
    /\ photoClock = 0
    /\ pendingReads = [f \in Files |-> 0]
    /\ lastAlert = ""
    /\ isDrawing = FALSE
    /\ canvas = 0

AppInit ==
    /\ currentView = "dashboard"
    /\ selectedDevice = Null
    /\ inspectionData = Null
    /\ showSuccessModal = FALSE
    /\ entered = 0
    /\ WizardInit
    /\ isSubmitting = FALSE
    /\ submitted = 0
    /\ orphanSubmits = 0
    /\ resetTimers = 0
    /\ rendered = Undefined

--------------------------------------------------------------------------
(* DeviceList: search and filters (App.jsx 609-630) *)

UpperCase == <<"A","B","C","D","E","F","G","H","I","J","K","L","M",
               "N","O","P","Q","R","S","T","U","V","W","X","Y","Z">>
LowerCase == <<"a","b","c","d","e","f","g","h","i","j","k","l","m",
               "n","o","p","q","r","s","t","u","v","w","x","y","z">>

\* String.prototype.toLowerCase on the characters of a string (App.jsx 626)
toLowerCase(cs) ==
    [i \in DOMAIN cs |->
        IF \E k \in DOMAIN UpperCase : UpperCase[k] = cs[i]
            THEN LowerCase[CHOOSE k \in DOMAIN UpperCase : UpperCase[k] = cs[i]]
            ELSE cs[i]]

\* String.prototype.includes (App.jsx 626): part occurs in cs at some position
includes(cs, part) ==
    \E k \in 0..(Len(cs) - Len(part)) : SubSeq(cs, k + 1, k + Len(part)) = part

\* mutant: the search compares the characters as they are typed
matchesSearch_caseSensitive(device, search) ==
    includes(device.name, search) \/ includes(device.id, search)

\* App.jsx 626
matchesSearch(device, search) ==
    \/ includes(toLowerCase(device.name), toLowerCase(search))
    \/ includes(toLowerCase(device.id), toLowerCase(search))

\* App.jsx 625-630
filteredDevices(list, search, type, status) ==
    SelectSeq(list, LAMBDA device :
        /\ matchesSearch(device, search)
        /\ type = "all" \/ device.type = type
        /\ status = "all" \/ device.status = status)

\* the device cards of the list (App.jsx 685)
FilteredDevices == filteredDevices(transmitters, debouncedSearch, filterType, filterStatus)

\* the empty state of the list (App.jsx 708)
NoDevicesFound == Len(FilteredDevices) = 0

\* what is typed into the search box (App.jsx 661)
SearchInputs == {<<>>, <<"p","t">>, <<"F","L","O","W">>, <<"z">>}

\* the options of the two selects (App.jsx 667-678)
TypeOptions == {"all", "Pressure", "Flow", "Level", "Temperature"}
StatusOptions == {"all", "active", "warning", "critical"}

--------------------------------------------------------------------------
(* Rendering *)

\* the SignaturePad is rendered with the step that holds a signature item (App.jsx 832)
PadShown(view, step) ==
    /\ view = "inspection"
    /\ \E i \in DOMAIN currentStepData(step).items :
          currentStepData(step).items[i].type = "signature"

\* a Modal of the device list is open (App.jsx 710-711)
ListModalOpen == showCreateModal \/ editingDevice # Null \/ deletingDevice # Null

\* an open Modal is a fixed full-screen overlay (z-50) above the page and the bottom
\* navigation (z-20) (App.jsx 301-303, 944, 945)
Blocked == showSuccessModal \/ ListModalOpen

\* a newly rendered DeviceList starts with its modals closed, an empty search and no
\* filter (App.jsx 609-617, 460)
ListFresh ==
    /\ showCreateModal' = FALSE
    /\ editingDevice' = Null
    /\ deletingDevice' = Null
    /\ errors' = <<>>
    /\ searchTerm' = <<>>
    /\ debouncedSearch' = <<>>
    /\ showFilters' = FALSE
    /\ filterType' = "all"
    /\ filterStatus' = "all"

\* a SignaturePad that is newly rendered starts with an empty canvas (App.jsx 349-350)
PadFresh ==
    /\ isDrawing' = FALSE
    /\ canvas' = 0

\* a newly rendered InspectionChecklist starts from its useState values (App.jsx 763-766);
\* the FileReaders of an unmounted one update nothing
WizardFresh ==
    /\ currentStep' = 0
    /\ checklistData' = <<>>
    /\ signature' = Null
    /\ photos' = <<>>
    /\ photoClock' = 0
    /\ pendingReads' = [f \in Files |-> 0]
    /\ lastAlert' = ""
    /\ PadFresh

\* the view switch of App (App.jsx 938-942) after setCurrentView(v): a component that is
\* no longer rendered loses its state; the handleSubmit promise of an unmounted
\* ReviewSubmit still resolves (App.jsx 858-859); a DeviceList that is mounted starts
\* the search timeout of its first render and one that is unmounted clears its timeout
\* (App.jsx 619-623)
Show(v) ==
    /\ currentView' = v
    /\ IF currentView = "inspection" /\ v = "inspection"
          THEN UNCHANGED <<wizardVars, padVars>>
          ELSE WizardFresh
    /\ IF currentView = "review" /\ v = "review"
          THEN UNCHANGED <<isSubmitting, submitted, orphanSubmits>>
          ELSE /\ isSubmitting' = FALSE
               /\ submitted' = 0
               /\ orphanSubmits' = orphanSubmits + (IF isSubmitting THEN 1 ELSE 0)
    /\ IF currentView = "devices" /\ v = "devices"
          THEN UNCHANGED listVars
          ELSE /\ ListFresh
               /\ searchTimer' = IF v = "devices" THEN {<<>>} ELSE {}

--------------------------------------------------------------------------
(* App: navigation (App.jsx 919-921, 940-944) *)

\* bottom navigation, Home (App.jsx 944)
navDashboard ==
    /\ ~Blocked
    /\ Show("dashboard")
    /\ UNCHANGED <<selectedDevice, inspectionData, showSuccessModal, entered, resetTimers,
                   dataVars, rendered>>

\* bottom navigation, Devices (App.jsx 944)
navDevices ==
    /\ ~Blocked
    /\ Show("devices")
    /\ UNCHANGED <<selectedDevice, inspectionData, showSuccessModal, entered, resetTimers,
                   dataVars, rendered>>

\* App.jsx 919, called from a device card of the list (688, 694, 704)
handleDeviceSelect ==
    /\ ~Blocked
    /\ currentView = "devices"
    /\ \E device \in Range(FilteredDevices) :
          /\ selectedDevice' = device
          /\ Show("device-detail")
    /\ UNCHANGED <<inspectionData, showSuccessModal, entered, resetTimers, dataVars, rendered>>

\* DeviceDetail onBack (App.jsx 940)
detailBack ==
    /\ ~Blocked
    /\ currentView = "device-detail"
    /\ selectedDevice # Null
    /\ Show("devices")
    /\ UNCHANGED <<selectedDevice, inspectionData, showSuccessModal, entered, resetTimers,
                   dataVars, rendered>>

\* App.jsx 920, the Start Inspection button (717, 745)
handleStartInspection ==
    /\ ~Blocked
    /\ currentView = "device-detail"
    /\ selectedDevice # Null
    /\ Show("inspection")
    /\ UNCHANGED <<selectedDevice, inspectionData, showSuccessModal, entered, resetTimers,
                   dataVars, rendered>>

\* InspectionChecklist onCancel (App.jsx 810, 941)
onCancel ==
    /\ ~Blocked
    /\ currentView = "inspection"
    /\ Show("device-detail")
    /\ UNCHANGED <<selectedDevice, inspectionData, showSuccessModal, entered, resetTimers,
                   dataVars, rendered>>

\* mutant: the review is shown without storing the inspection
handleInspectionComplete_noData(data) ==
    /\ Show("review")
    /\ UNCHANGED <<selectedDevice, inspectionData, showSuccessModal, entered, resetTimers,
                   dataVars, rendered>>

\* App.jsx 921
handleInspectionComplete(data) ==
    /\ inspectionData' = data
    /\ Show("review")
    /\ UNCHANGED <<selectedDevice, showSuccessModal, entered, resetTimers, dataVars, rendered>>

--------------------------------------------------------------------------
(* InspectionChecklist (App.jsx 762-851) *)

WizardShown == currentView = "inspection" /\ ~Blocked

\* the items of the step on screen (App.jsx 821)
ShownItems(type) ==
    {it \in Range(currentStepData(currentStep).items) : it.type = type}

\* the buttons of the wizard (App.jsx 840-845)
PreviousDisabled == currentStep = 0
CompleteOffered  == currentStep = Len(checklistSteps) - 1
CompleteDisabled == ~Truthy(signature)

unchangedByWizard ==
    UNCHANGED <<appVars, reviewVars, dataVars, rendered, listVars>>

unchangedByEntry ==
    UNCHANGED <<currentView, selectedDevice, inspectionData, showSuccessModal, reviewVars,
                dataVars, rendered, listVars>>

\* App.jsx 768-770, from a checkbox of the step on screen (824): e.target.checked is the
\* opposite of what the box shows
handleCheckboxChange ==
    /\ WizardShown
    /\ \E it \in ShownItems("checkbox") :
          LET stepId == currentStepData(currentStep).id
              shown  == Truthy(Lookup(checklistData, stepId, it.id))
          IN  checklistData' = SetEntry(checklistData, stepId, it.id, Bool(~shown))
    /\ entered < MaxEntered
    /\ entered' = entered + 1
    /\ UNCHANGED <<currentStep, signature, photos, photoClock, pendingReads, lastAlert,
                   padVars>>
    /\ unchangedByEntry

\* App.jsx 772-774, from the textarea of the step on screen (827)
handleTextareaChange ==
    /\ WizardShown
    /\ \E it \in ShownItems("textarea"), value \in NoteInputs :
          LET stepId == currentStepData(currentStep).id
          IN  checklistData' = SetEntry(checklistData, stepId, it.id, Str(value))
    /\ entered < MaxEntered
    /\ entered' = entered + 1
    /\ UNCHANGED <<currentStep, signature, photos, photoClock, pendingReads, lastAlert,
                   padVars>>
    /\ unchangedByEntry

\* App.jsx 776-786: one FileReader per selected file
handlePhotoUpload ==
    /\ WizardShown
    /\ ShownItems("file") # {}
    /\ \E files \in SUBSET Files :
          /\ files # {}
          /\ entered + Cardinality(files) <= MaxEntered
          /\ entered' = entered + Cardinality(files)
          /\ pendingReads' = [f \in Files |->
                                 pendingReads[f] + (IF f \in files THEN 1 ELSE 0)]
    /\ UNCHANGED <<currentStep, checklistData, signature, photos, photoClock, lastAlert,
                   padVars>>
    /\ unchangedByEntry

\* mutant: the callback sets the list from the photos of the render that started the
\* read, taken as empty, and so drops what was loaded in between
readerOnload_overwrite ==
    /\ currentView = "inspection"
    /\ \E f \in Files :
          /\ pendingReads[f] > 0
          /\ pendingReads' = [pendingReads EXCEPT ![f] = @ - 1]
          /\ \E id \in {photoClock, photoClock + 1} \ {0} :
                /\ photoClock' = id
                /\ photos' = <<[id |-> id, name |-> f, url |-> fileURL(f)]>>
    /\ UNCHANGED <<currentStep, checklistData, signature, lastAlert, padVars>>
    /\ UNCHANGED <<appVars, reviewVars, dataVars, rendered, listVars>>

\* reader.onload (App.jsx 780-782) of one of the reads in flight
readerOnload ==
    /\ currentView = "inspection"
    /\ \E f \in Files :
          /\ pendingReads[f] > 0
          /\ pendingReads' = [pendingReads EXCEPT ![f] = @ - 1]
          /\ \E id \in {photoClock, photoClock + 1} \ {0} :
                /\ photoClock' = id
                /\ photos' = Append(photos, [id |-> id, name |-> f, url |-> fileURL(f)])
    /\ UNCHANGED <<currentStep, checklistData, signature, lastAlert, padVars>>
    /\ unchangedByWizard

\* App.jsx 788, from the remove button of a photo (830)
removePhoto ==
    /\ WizardShown
    /\ ShownItems("file") # {}
    /\ \E photo \in Range(photos) :
          photos' = removePhotoOf(photos, photo.id)
    /\ UNCHANGED <<currentStep, checklistData, signature, photoClock, pendingReads,
                   lastAlert, padVars>>
    /\ unchangedByWizard

\* setCurrentStep and the rendering of the new step: the SignaturePad is constructed
\* when its step appears and dropped when it disappears
GoToStep(s) ==
    /\ currentStep' = s
    /\ IF PadShown(currentView, s) = PadShown(currentView, currentStep)
          THEN UNCHANGED padVars
          ELSE PadFresh
    /\ UNCHANGED <<checklistData, signature, photos, photoClock, pendingReads, lastAlert>>
    /\ unchangedByWizard

\* App.jsx 790 as run by the component
nextStepCall ==
    /\ currentView = "inspection"
    /\ GoToStep(nextStepOf(currentStep))

\* App.jsx 791 as run by the component
prevStepCall ==
    /\ currentView = "inspection"
    /\ GoToStep(prevStepOf(currentStep))

\* the Next button, offered on every step but the last (App.jsx 841-845)
nextStep ==
    /\ WizardShown
    /\ ~CompleteOffered
    /\ nextStepCall

\* the Previous button, disabled on step 0 (App.jsx 840)
prevStep ==
    /\ WizardShown
    /\ ~PreviousDisabled
    /\ prevStepCall

\* mutant: the signature check is missing
handleCompleteCall_noCheck ==
    /\ currentView = "inspection"
    /\ handleInspectionComplete(
           InspectionOf(selectedDevice, checklistData, photos, signature))

\* App.jsx 793-800 as run by the component
handleCompleteCall ==
    /\ currentView = "inspection"
    /\ IF ~Truthy(signature)
          THEN /\ lastAlert' = "Signature is required before completing inspection"
               /\ UNCHANGED <<currentStep, checklistData, signature, photos, photoClock,
                              pendingReads, padVars>>
               /\ unchangedByWizard
          ELSE handleInspectionComplete(
                   InspectionOf(selectedDevice, checklistData, photos, signature))

\* the Complete button, offered on the last step, disabled without a signature
\* (App.jsx 841-842)
handleComplete ==
    /\ WizardShown
    /\ CompleteOffered
    /\ ~CompleteDisabled
    /\ handleCompleteCall

--------------------------------------------------------------------------
(* SignaturePad (App.jsx 348-439) *)

PadUsable == PadShown(currentView, currentStep) /\ ~Blocked

unchangedByPad ==
    UNCHANGED <<appVars, reviewVars, dataVars, rendered, listVars, currentStep, checklistData,
                photos, photoClock, pendingReads>>

\* App.jsx 382-390: mousedown / touchstart
startDrawing ==
    /\ PadUsable
    /\ isDrawing' = TRUE
    /\ UNCHANGED <<canvas, signature, lastAlert>>
    /\ unchangedByPad

\* mutant: a move strokes a segment whether or not a stroke was started
draw_always ==
    /\ PadUsable
    /\ canvas < MaxSegs
    /\ canvas' = canvas + 1
    /\ UNCHANGED <<isDrawing, signature, lastAlert>>
    /\ UNCHANGED <<appVars, reviewVars, dataVars, rendered, listVars, currentStep,
                   checklistData, photos, photoClock, pendingReads>>

\* App.jsx 392-400: mousemove / touchmove; a segment is stroked only while drawing
draw ==
    /\ PadUsable
    /\ IF ~isDrawing
          THEN UNCHANGED canvas
          ELSE /\ canvas < MaxSegs
               /\ canvas' = canvas + 1
    /\ UNCHANGED <<isDrawing, signature, lastAlert>>
    /\ unchangedByPad

\* App.jsx 402: mouseup / mouseleave / touchend
stopDrawing ==
    /\ PadUsable
    /\ isDrawing' = FALSE
    /\ UNCHANGED <<canvas, signature, lastAlert>>
    /\ unchangedByPad

\* the window is resized (App.jsx 352-372): setupCanvas sets the width and the height of
\* the canvas, which erases it
onResize ==
    /\ PadShown(currentView, currentStep)
    /\ canvas' = 0
    /\ UNCHANGED <<isDrawing, signature, lastAlert>>
    /\ unchangedByPad

\* mutant: Clear erases the canvas and leaves the signature of the wizard
clearCanvas_keepSignature ==
    /\ PadUsable
    /\ canvas' = 0
    /\ UNCHANGED <<isDrawing, signature, lastAlert>>
    /\ UNCHANGED <<appVars, reviewVars, dataVars, rendered, listVars, currentStep,
                   checklistData, photos, photoClock, pendingReads>>

\* App.jsx 404-409 with the wizard's onClear (833)
clearCanvas ==
    /\ PadUsable
    /\ canvas' = 0
    /\ signature' = Null
    /\ UNCHANGED <<isDrawing, lastAlert>>
    /\ unchangedByPad

\* App.jsx 411-415 with the wizard's onSave (833)
saveSignature ==
    /\ PadUsable
    /\ signature' = toDataURL(canvas)
    /\ lastAlert' = "Signature saved successfully!"
    /\ UNCHANGED <<isDrawing, canvas>>
    /\ unchangedByPad

--------------------------------------------------------------------------
(* ReviewSubmit (App.jsx 853-908) and the submit callback of App (922-930) *)

\* timers of 1200 ms that are pending
PendingTimers == (IF isSubmitting THEN 1 ELSE 0) + orphanSubmits + resetTimers

\* the Submit button (App.jsx 904)
SubmitDisabled == isSubmitting \/ ~Truthy(inspectionData.signature)

\* App.jsx 856-857: the part of handleSubmit before the await
handleSubmit ==
    /\ currentView = "review"
    /\ ~Blocked
    /\ inspectionData # Null
    /\ ~SubmitDisabled
    /\ PendingTimers < MaxTimers
    /\ isSubmitting' = TRUE
    /\ submitted' = submitted + 1
    /\ UNCHANGED <<appVars, wizardVars, padVars, orphanSubmits, resetTimers, dataVars, rendered,
                   listVars>>

\* mutant: the modal is shown but the reset timeout is not started
handleSubmitInspection_noReset ==
    /\ showSuccessModal' = TRUE
    /\ UNCHANGED resetTimers

\* App.jsx 922-930: show the modal and start the reset timeout
handleSubmitInspection ==
    /\ showSuccessModal' = TRUE
    /\ resetTimers' = resetTimers + 1

\* App.jsx 858-860: the promise of the rendered ReviewSubmit resolves
submitResolve ==
    /\ currentView = "review"
    /\ isSubmitting
    /\ handleSubmitInspection
    /\ isSubmitting' = FALSE
    /\ UNCHANGED <<currentView, selectedDevice, inspectionData, entered, wizardVars,
                   padVars, submitted, orphanSubmits, dataVars, rendered, listVars>>

\* App.jsx 858-860: the promise of an unmounted ReviewSubmit resolves; its
\* setIsSubmitting(false) updates nothing
orphanSubmitResolve ==
    /\ orphanSubmits > 0
    /\ orphanSubmits' = orphanSubmits - 1
    /\ handleSubmitInspection
    /\ UNCHANGED <<currentView, selectedDevice, inspectionData, entered, wizardVars,
                   padVars, isSubmitting, submitted, dataVars, rendered, listVars>>

\* mutant: the reset clears the selection but leaves the view as it is
resetTimeout_keepView ==
    /\ resetTimers > 0
    /\ resetTimers' = resetTimers - 1
    /\ Show(currentView)
    /\ selectedDevice' = Null
    /\ inspectionData' = Null
    /\ showSuccessModal' = FALSE
    /\ UNCHANGED <<entered, dataVars, rendered>>

\* App.jsx 924-929: the reset timeout fires
resetTimeout ==
    /\ resetTimers > 0
    /\ resetTimers' = resetTimers - 1
    /\ Show("dashboard")
    /\ selectedDevice' = Null
    /\ inspectionData' = Null
    /\ showSuccessModal' = FALSE
    /\ UNCHANGED <<entered, dataVars, rendered>>

\* the Back button of the review (App.jsx 888, 942)
reviewBack ==
    /\ currentView = "review"
    /\ ~Blocked
    /\ Show("inspection")
    /\ UNCHANGED <<selectedDevice, inspectionData, showSuccessModal, entered, resetTimers,
                   dataVars, rendered>>

\* closing the success modal: overlay, X or Close (App.jsx 303, 315, 945)
closeSuccessModal ==
    /\ showSuccessModal
    /\ showSuccessModal' = FALSE
    /\ UNCHANGED <<currentView, selectedDevice, inspectionData, entered, wizardVars,
                   padVars, reviewVars, dataVars, rendered, listVars>>

--------------------------------------------------------------------------
(* Zod schema of a transmitter (App.jsx 31-41) *)

Digits == {"0","1","2","3","4","5","6","7","8","9"}

\* String.prototype.toUpperCase on the characters of a string (App.jsx 492)
toUpperCase(cs) ==
    [i \in DOMAIN cs |->
        IF \E k \in DOMAIN LowerCase : LowerCase[k] = cs[i]
            THEN UpperCase[CHOOSE k \in DOMAIN LowerCase : LowerCase[k] = cs[i]]
            ELSE cs[i]]

\* /^[A-Z]{2}-\d{3}$/ (App.jsx 32)
IdPattern(cs) ==
    /\ Len(cs) = 6
    /\ cs[1] \in Range(UpperCase)
    /\ cs[2] \in Range(UpperCase)
    /\ cs[3] = "-"
    /\ \A i \in 4..6 : cs[i] \in Digits

\* /^\d{4}-\d{2}-\d{2}$/ (App.jsx 39, 40)
DatePattern(cs) ==
    /\ Len(cs) = 10
    /\ \A i \in {1, 2, 3, 4, 6, 7, 9, 10} : cs[i] \in Digits
    /\ cs[5] = "-"
    /\ cs[8] = "-"

FormFields == {"id", "name", "type", "location", "status", "range", "accuracy",
               "lastCalibration", "nextCalibrationDue"}

\* the message of zod for a value outside a z.enum
InvalidEnum == "Invalid enum value"

\* the issues transmitterSchema.parse(data) raises, per field, in the order of the
\* checks (App.jsx 31-41); data holds a string in each of the nine fields, as every
\* form does (App.jsx 447-457, 492-519), and further keys are ignored by z.object
fieldIssues(data) ==
    [id |-> (IF Len(data.id) < 1 THEN <<"ID is required">> ELSE <<>>)
            \o (IF ~IdPattern(data.id) THEN <<"Format: XX-000">> ELSE <<>>),
     name |-> IF Len(data.name) < 5
                 THEN <<"Name must be at least 5 characters">> ELSE <<>>,
     type |-> IF data.type \notin {"Pressure", "Flow", "Level", "Temperature"}
                 THEN <<InvalidEnum>> ELSE <<>>,
     location |-> IF Len(data.location) < 5 THEN <<"Location is required">> ELSE <<>>,
     status |-> IF data.status \notin {"active", "warning", "critical"}
                   THEN <<InvalidEnum>> ELSE <<>>,
     range |-> IF Len(data.range) < 3 THEN <<"Range is required">> ELSE <<>>,
     accuracy |-> IF Len(data.accuracy) < 2 THEN <<"Accuracy is required">> ELSE <<>>,
     lastCalibration |-> IF ~DatePattern(data.lastCalibration)
                            THEN <<"Invalid date">> ELSE <<>>,
     nextCalibrationDue |-> IF ~DatePattern(data.nextCalibrationDue)
                               THEN <<"Invalid date">> ELSE <<>>]

\* error.flatten().fieldErrors (App.jsx 156, 169): the fields that have issues
fieldErrors(data) ==
    LET issues == fieldIssues(data)
        bad    == {k \in FormFields : issues[k] # <<>>}
    IN  [k \in bad |-> issues[k]]

\* transmitterSchema.parse(data) does not throw (App.jsx 151, 164)
transmitterSchemaOk(data) ==
    LET issues == fieldIssues(data)
    IN  \A k \in FormFields : issues[k] = <<>>

--------------------------------------------------------------------------
(* DataProvider: pure parts (App.jsx 56-62, 138, 149-177) *)

\* mutant: the validation is skipped
createTransmitter_noParse(prev, data) ==
    [set |-> TRUE, list |-> Append(prev, data), result |-> [success |-> TRUE]]

\* App.jsx 149-160: whether setTransmitters is called, the list its updater yields
\* from prev, and the value returned
createTransmitter(prev, data) ==
    IF transmitterSchemaOk(data)
        THEN [set |-> TRUE, list |-> Append(prev, data), result |-> [success |-> TRUE]]
        ELSE [set |-> FALSE, list |-> prev,
              result |-> [success |-> FALSE, errors |-> fieldErrors(data)]]

\* mutant: only the first entry with the id is replaced
updateTransmitter_firstOnly(prev, id, data) ==
    IF transmitterSchemaOk(data)
        THEN [set |-> TRUE,
              list |-> [i \in DOMAIN prev |->
                          IF prev[i].id = id /\ \A j \in 1..(i - 1) : prev[j].id # id
                              THEN data ELSE prev[i]],
              result |-> [success |-> TRUE]]
        ELSE [set |-> FALSE, list |-> prev,
              result |-> [success |-> FALSE, errors |-> fieldErrors(data)]]

\* mutant: the data is stored without validation
updateTransmitter_noParse(prev, id, data) ==
    [set |-> TRUE,
     list |-> [i \in DOMAIN prev |-> IF prev[i].id = id THEN data ELSE prev[i]],
     result |-> [success |-> TRUE]]

\* App.jsx 162-173
updateTransmitter(prev, id, data) ==
    IF transmitterSchemaOk(data)
        THEN [set |-> TRUE,
              list |-> [i \in DOMAIN prev |-> IF prev[i].id = id THEN data ELSE prev[i]],
              result |-> [success |-> TRUE]]
        ELSE [set |-> FALSE, list |-> prev,
              result |-> [success |-> FALSE, errors |-> fieldErrors(data)]]

\* mutant: only the first entry with the id is removed
deleteTransmitter_firstOnly(prev, id) ==
    IF \E i \in DOMAIN prev : prev[i].id = id
        THEN LET k == CHOOSE i \in DOMAIN prev :
                        prev[i].id = id /\ \A j \in 1..(i - 1) : prev[j].id # id
             IN  SubSeq(prev, 1, k - 1) \o SubSeq(prev, k + 1, Len(prev))
        ELSE prev

\* prev => prev.filter(t => t.id !== id) (App.jsx 176)
deleteTransmitter(prev, id) == SelectSeq(prev, LAMBDA t : t.id # id)

\* the characters of a string value in one string
RECURSIVE Chars(_)
Chars(cs) == IF cs = <<>> THEN "" ELSE Head(cs) \o Chars(Tail(cs))

\* "key":"value" of a JSON object; no value of the model holds a character that
\* JSON.stringify escapes
Member(key, value) == "\"" \o key \o "\":\"" \o value \o "\""

\* JSON.stringify of one transmitter: the keys in insertion order, which is the order
\* of the literals (App.jsx 64-101) for an object that has a healthIndicator and the
\* order of the form (App.jsx 447-457) for one that was typed in
stringifyObject(d) ==
    IF "healthIndicator" \in DOMAIN d
        THEN "{" \o Member("id", Chars(d.id)) \o "," \o Member("name", Chars(d.name))
             \o "," \o Member("type", d.type) \o "," \o Member("location", d.location)
             \o "," \o Member("status", d.status)
             \o "," \o Member("lastCalibration", Chars(d.lastCalibration))
             \o "," \o Member("nextCalibrationDue", Chars(d.nextCalibrationDue))
             \o "," \o Member("healthIndicator", d.healthIndicator)
             \o "," \o Member("range", d.range)
             \o "," \o Member("accuracy", d.accuracy) \o "}"
        ELSE "{" \o Member("id", Chars(d.id)) \o "," \o Member("name", Chars(d.name))
             \o "," \o Member("type", d.type) \o "," \o Member("location", d.location)
             \o "," \o Member("status", d.status) \o "," \o Member("range", d.range)
             \o "," \o Member("accuracy", d.accuracy)
             \o "," \o Member("lastCalibration", Chars(d.lastCalibration))
             \o "," \o Member("nextCalibrationDue", Chars(d.nextCalibrationDue)) \o "}"

RECURSIVE stringifyElements(_)
stringifyElements(list) ==
    IF list = <<>> THEN ""
    ELSE IF Len(list) = 1 THEN stringifyObject(list[1])
    ELSE stringifyObject(Head(list)) \o "," \o stringifyElements(Tail(list))

\* JSON.stringify(transmitters) (App.jsx 138)
JSONstringify(list) == "[" \o stringifyElements(list) \o "]"

--------------------------------------------------------------------------
(* Inputs of the device forms and contents of localStorage at start *)

\* what is typed into the fields of the form: values the schema accepts ...
GoodInputs ==
    [id |-> {<<"t","t","-","0","0","4">>, <<"p","t","-","0","0","1">>},
     name |-> {<<"T","e","m","p"," ","0","0","4">>},
     type |-> {"Temperature"},
     location |-> {"Unit D - Boiler"},
     status |-> {"active"},
     range |-> {"0-50 C"},
     accuracy |-> {"+-1%"},
     lastCalibration |-> {<<"2","0","2","4","-","0","3","-","0","1">>},
     nextCalibrationDue |-> {<<"2","0","2","5","-","0","3","-","0","1">>}]

\* ... and values it rejects; the empty values are those of a field left untouched
\* (App.jsx 447-457) or of the option "Select..." (App.jsx 261)
BadInputs ==
    [id |-> {<<>>, <<"T","-","4">>},
     name |-> {<<>>, <<"t","m","p">>},
     type |-> {""},
     location |-> {""},
     status |-> {""},
     range |-> {""},
     accuracy |-> {""},
     lastCalibration |-> {<<>>},
     nextCalibrationDue |-> {<<>>}]

\* the value a field holds after onChange (App.jsx 492-519)
Typed(k, v) == IF k = "id" THEN toUpperCase(v) ELSE v

FieldInputs == [k \in FormFields |-> {Typed(k, v) : v \in GoodInputs[k] \cup BadInputs[k]}]

\* the fields of a form that hold one of the rejected inputs
Defects(data) == {k \in FormFields : data[k] \in BadInputs[k]}

\* App.jsx 447-457
initialFormData ==
    [id |-> <<>>, name |-> <<>>, type |-> "", location |-> "", status |-> "active",
     range |-> "", accuracy |-> "", lastCalibration |-> <<>>, nextCalibrationDue |-> <<>>]

\* forms filled in with accepted values
GoodForms ==
    {[id |-> Typed("id", i), name |-> <<"T","e","m","p"," ","0","0","4">>,
      type |-> "Temperature", location |-> "Unit D - Boiler", status |-> "active",
      range |-> "0-50 C", accuracy |-> "+-1%",
      lastCalibration |-> <<"2","0","2","4","-","0","3","-","0","1">>,
      nextCalibrationDue |-> <<"2","0","2","5","-","0","3","-","0","1">>] :
        i \in GoodInputs.id}

\* formData of the create form at submit: filled in with accepted values, with one field
\* holding a rejected value, or untouched
FormInputs ==
    GoodForms
    \cup UNION {{[g EXCEPT ![k] = Typed(k, v)] : v \in BadInputs[k]} :
                   k \in FormFields,
                   g \in {f \in GoodForms : f.id = <<"T","T","-","0","0","4">>}}
    \cup {initialFormData}

\* formData of the edit form at submit: the device (App.jsx 459, 464) with its id or
\* its name typed over, or as it was
EditInputs(device) ==
    {device} \cup UNION {{[device EXCEPT ![k] = v] : v \in FieldInputs[k]} :
                             k \in {"id", "name"}}

\* a list an earlier session can have saved: two entries share an id
storedTransmitters ==
    <<defaultTransmitters[1],
      [id |-> <<"P","T","-","0","0","1">>, name |-> <<"T","e","m","p"," ","0","0","4">>,
       type |-> "Temperature", location |-> "Unit D - Boiler", status |-> "active",
       range |-> "0-50 C", accuracy |-> "+-1%",
       lastCalibration |-> <<"2","0","2","4","-","0","3","-","0","1">>,
       nextCalibrationDue |-> <<"2","0","2","5","-","0","3","-","0","1">>]>>

\* data passed to the provider by a caller
CallInputs == GoodForms \cup {initialFormData}

\* ids passed to the provider by a caller
IdArgs == {toUpperCase(v) : v \in GoodInputs.id} \cup {defaultTransmitters[2].id}

\* the lists a session can start with
Parsable == {storedTransmitters, defaultTransmitters}

\* the lists the provider can hold n calls later (App.jsx 152, 165, 176)
RECURSIVE ListsAfter(_)
ListsAfter(n) ==
    IF n = 0 THEN Parsable
    ELSE LET before == ListsAfter(n - 1) IN
         before
         \cup {createTransmitter(l, d).list : l \in before, d \in CallInputs}
         \cup {updateTransmitter(l, id, d).list : l \in before, id \in IdArgs, d \in CallInputs}
         \cup {deleteTransmitter(l, id) : l \in before, id \in IdArgs}

\* the texts JSON.parse reads, each with its value: what JSON.stringify makes of a list
\* the provider can hold, and the text of a list that holds null
JSONTexts ==
    {[text |-> JSONstringify(l), value |-> l] : l \in ListsAfter(MaxOps)}
    \cup {[text |-> "[null]", value |-> <<Null>>]}

\* App.jsx 56-62: the value of JSON.parse(str), or fallback when it throws
safeParseJSON(str, fallback) ==
    IF \E j \in JSONTexts : j.text = str
        THEN (CHOOSE j \in JSONTexts : j.text = str).value
        ELSE fallback

\* localStorage.getItem('transmitters') at start: nothing, a text that is not JSON, or
\* what an earlier session saved
InitialStorage == {Null, Str("[{"), Str(JSONstringify(storedTransmitters))}

\* the useState initializer of transmitters (App.jsx 104-108); saved is Undefined when
\* there is no localStorage, and the empty text is falsy
loadTransmitters(saved) ==
    IF Truthy(saved) THEN safeParseJSON(saved.v, defaultTransmitters)
                     ELSE defaultTransmitters

--------------------------------------------------------------------------
(* DataProvider: state after the first render and its effects (App.jsx 104-147) *)

\* DeviceList is not rendered at start (App.jsx 914, 939)
ListInit ==
    /\ showCreateModal = FALSE
    /\ editingDevice = Null
    /\ deletingDevice = Null
    /\ errors = <<>>
    /\ searchTerm = <<>>
    /\ debouncedSearch = <<>>
    /\ showFilters = FALSE
    /\ filterType = "all"
    /\ filterStatus = "all"
    /\ searchTimer = {}

DataInit ==
    /\ storage \in InitialStorage
    /\ transmitters = loadTransmitters(storage)
    /\ isOnline \in BOOLEAN
    /\ pendingSync = ~isOnline
    /\ saveTimer = {transmitters}
    /\ saveWarned = FALSE
    /\ syncTimers = 0
    /\ ops = 0
    /\ ListInit

--------------------------------------------------------------------------
(* DataProvider: effects, timers and calls (App.jsx 114-177) *)

\* mutant: the pending timeout is not cleared
saveEffect_noClear(list, online) ==
    /\ saveTimer' = saveTimer \cup {list}
    /\ pendingSync' = IF ~online THEN TRUE ELSE pendingSync

\* the effect on [transmitters, isOnline] (App.jsx 133-147): the pending timeout is
\* cleared, a timeout that will write the list of this render is started, and offline
\* the change is flagged; saveTimer holds the lists of the pending timeouts
saveEffect(list, online) ==
    /\ saveTimer' = {list}
    /\ pendingSync' = IF ~online THEN TRUE ELSE pendingSync

\* setTransmitters(updater) with the render and the effect that follow it: the updater
\* always yields a new array (App.jsx 152, 165, 176)
setTransmitters(list) ==
    /\ ops < MaxOps
    /\ ops' = ops + 1
    /\ transmitters' = list
    /\ saveEffect(list, isOnline)
    /\ UNCHANGED <<isOnline, storage, saveWarned, syncTimers>>

\* the state changes of a createTransmitter or updateTransmitter call with outcome r
applyResult(r) ==
    IF r.set THEN setTransmitters(r.list) ELSE UNCHANGED dataVars

unchangedByProvider ==
    UNCHANGED <<appVars, wizardVars, padVars, reviewVars, listVars, rendered>>

\* the 300 ms timeout fires (App.jsx 136-142): the write succeeds, or setItem throws
\* (storage full or not available) and the failure is only logged; storage is Undefined
\* when there is no localStorage at all
saveTimeout ==
    /\ \E list \in saveTimer :
          /\ saveTimer' = saveTimer \ {list}
          /\ \/ /\ storage # Undefined
                /\ storage' = Str(JSONstringify(list))
                /\ saveWarned' = FALSE
             \/ /\ saveWarned' = TRUE
                /\ UNCHANGED storage
    /\ UNCHANGED <<transmitters, isOnline, pendingSync, syncTimers, ops>>
    /\ unchangedByProvider

\* mutant: the online event starts no sync
handleOnline_noSync ==
    /\ isOnline' = TRUE
    /\ IF ~isOnline
          THEN saveEffect(transmitters, TRUE)
          ELSE UNCHANGED <<saveTimer, pendingSync>>
    /\ UNCHANGED <<transmitters, storage, saveWarned, syncTimers, ops>>
    /\ UNCHANGED <<appVars, wizardVars, padVars, reviewVars, listVars, rendered>>

\* App.jsx 115-121 with the render that follows: the save effect runs again when
\* isOnline has changed
handleOnline ==
    /\ isOnline' = TRUE
    /\ IF pendingSync
          THEN /\ syncTimers < MaxTimers
               /\ syncTimers' = syncTimers + 1
          ELSE UNCHANGED syncTimers
    /\ IF ~isOnline
          THEN saveEffect(transmitters, TRUE)
          ELSE UNCHANGED <<saveTimer, pendingSync>>
    /\ UNCHANGED <<transmitters, storage, saveWarned, ops>>
    /\ unchangedByProvider

\* App.jsx 122 with the render that follows
handleOffline ==
    /\ isOnline' = FALSE
    /\ IF isOnline
          THEN saveEffect(transmitters, FALSE)
          ELSE UNCHANGED <<saveTimer, pendingSync>>
    /\ UNCHANGED <<transmitters, storage, saveWarned, syncTimers, ops>>
    /\ unchangedByProvider

\* the 1200 ms "pretend to sync" timeout fires (App.jsx 119)
syncTimeout ==
    /\ syncTimers > 0
    /\ syncTimers' = syncTimers - 1
    /\ pendingSync' = FALSE
    /\ UNCHANGED <<transmitters, isOnline, saveTimer, storage, saveWarned, ops>>
    /\ unchangedByProvider

\* mutant: the banner is hidden whenever the app is online
OfflineBanner_onlineHidden(online, pending) ==
    IF online THEN Null
    ELSE [class |-> "bg-yellow-500",
          text |-> "You are offline. Changes will sync when reconnected."]

\* what OfflineBanner renders (App.jsx 331-343): null, or the alert with its colour and
\* its message
OfflineBanner(online, pending) ==
    IF online /\ ~pending THEN Null
    ELSE [class |-> IF online THEN "bg-green-500" ELSE "bg-yellow-500",
          text |-> IF online THEN "Syncing data..."
                   ELSE "You are offline. Changes will sync when reconnected."]

\* createTransmitter(data) called by a consumer of the context (App.jsx 149-160)
createTransmitterCall ==
    /\ \E data \in CallInputs : applyResult(createTransmitter(transmitters, data))
    /\ unchangedByProvider

\* updateTransmitter(id, data) called by a consumer of the context (App.jsx 162-173)
updateTransmitterCall ==
    /\ \E id \in IdArgs, data \in CallInputs :
          applyResult(updateTransmitter(transmitters, id, data))
    /\ unchangedByProvider

\* deleteTransmitter(id) called by a consumer of the context (App.jsx 175-177)
deleteTransmitterCall ==
    /\ \E id \in IdArgs : setTransmitters(deleteTransmitter(transmitters, id))
    /\ unchangedByProvider

--------------------------------------------------------------------------
(* DataProvider: start of a session over any content of localStorage (App.jsx 104-111) *)

\* localStorage at start: no localStorage at all, no entry, an entry that is empty, that
\* is not JSON, that is JSON but no list of transmitters, or that an earlier session saved
StoredTexts == InitialStorage \cup {Undefined, Str(""), Str("[null]")}

\* list can be rendered: Dashboard reads t.status of every entry t (App.jsx 554-556),
\* which throws for null
Renders(list) == \A i \in DOMAIN list : list[i] # Null

\* the first render succeeded
Mounted == Renders(transmitters)

\* the state of the provider once the page is loaded over saved (App.jsx 104-147); the
\* effects run only after a render that did not throw
Loaded(saved, online) ==
    LET list == loadTransmitters(saved) IN
    [transmitters |-> list,
     pendingSync |-> Renders(list) /\ ~online,
     saveTimer |-> IF Renders(list) THEN {list} ELSE {}]

LoadInit ==
    /\ AppInit
    /\ storage \in StoredTexts
    /\ isOnline \in BOOLEAN
    /\ transmitters = Loaded(storage, isOnline).transmitters
    /\ pendingSync = Loaded(storage, isOnline).pendingSync
    /\ saveTimer = Loaded(storage, isOnline).saveTimer
    /\ saveWarned = FALSE
    /\ syncTimers = 0
    /\ ops = 0
    /\ ListInit

\* the page is loaded again: the provider starts over from what localStorage holds, and
\* the timers of the page before are gone
reload ==
    /\ \E online \in BOOLEAN :
          /\ isOnline' = online
          /\ transmitters' = Loaded(storage, online).transmitters
          /\ pendingSync' = Loaded(storage, online).pendingSync
          /\ saveTimer' = Loaded(storage, online).saveTimer
    /\ saveWarned' = FALSE
    /\ syncTimers' = 0
    /\ UNCHANGED <<storage, ops>>
    /\ unchangedByProvider

--------------------------------------------------------------------------
(* DeviceList and its modals (App.jsx 444-546, 607-714) *)

ListShown == currentView = "devices" /\ ~showSuccessModal

unchangedByList ==
    UNCHANGED <<appVars, wizardVars, padVars, reviewVars, rendered, searchVars>>

\* the Add button (App.jsx 652); the modal resets its errors when it opens (462-467)
openCreate ==
    /\ ListShown
    /\ ~ListModalOpen
    /\ showCreateModal' = TRUE
    /\ errors' = <<>>
    /\ UNCHANGED <<editingDevice, deletingDevice, dataVars>>
    /\ unchangedByList

\* the Edit button of a device card (App.jsx 701)
openEdit ==
    /\ ListShown
    /\ ~ListModalOpen
    /\ \E device \in Range(FilteredDevices) : editingDevice' = device
    /\ errors' = <<>>
    /\ UNCHANGED <<showCreateModal, deletingDevice, dataVars>>
    /\ unchangedByList

\* the Delete button of a device card (App.jsx 702)
openDelete ==
    /\ ListShown
    /\ ~ListModalOpen
    /\ \E device \in Range(FilteredDevices) : deletingDevice' = device
    /\ UNCHANGED <<showCreateModal, editingDevice, errors, dataVars>>
    /\ unchangedByList

\* the modal is open (App.jsx 710)
FormOpen == showCreateModal \/ editingDevice # Null

\* handleClose (App.jsx 469-473) with onClose (710)
closeForm ==
    /\ errors' = <<>>
    /\ showCreateModal' = FALSE
    /\ editingDevice' = Null
    /\ UNCHANGED deletingDevice

\* Cancel, the close button or the backdrop of the form modal (App.jsx 486, 521)
handleClose ==
    /\ ListShown
    /\ FormOpen
    /\ closeForm
    /\ UNCHANGED dataVars
    /\ unchangedByList

\* handleSubmit of the form modal (App.jsx 475-483) with the form holding formData
handleSubmitForm(formData) ==
    /\ ListShown
    /\ FormOpen
    /\ formData \in (IF editingDevice # Null THEN EditInputs(editingDevice)
                                             ELSE FormInputs)
    /\ LET result == IF editingDevice # Null
                        THEN updateTransmitter(transmitters, editingDevice.id, formData)
                        ELSE createTransmitter(transmitters, formData)
       IN  /\ applyResult(result)
           /\ IF result.result.success
                 THEN closeForm
                 ELSE /\ errors' = result.result.errors
                      /\ UNCHANGED <<showCreateModal, editingDevice, deletingDevice>>
    /\ unchangedByList

\* the form is submitted (App.jsx 487, 522)
onSubmitForm ==
    /\ ListShown
    /\ FormOpen
    /\ \E formData \in (IF editingDevice # Null THEN EditInputs(editingDevice)
                                                ELSE FormInputs) :
          handleSubmitForm(formData)

\* Cancel, the close button or the backdrop of the delete modal (App.jsx 532, 540, 711)
deleteCancel ==
    /\ ListShown
    /\ deletingDevice # Null
    /\ deletingDevice' = Null
    /\ UNCHANGED <<showCreateModal, editingDevice, errors, dataVars>>
    /\ unchangedByList

\* handleDelete (App.jsx 639-642), the Delete button of the delete modal (541)
handleDelete ==
    /\ ListShown
    /\ deletingDevice # Null
    /\ setTransmitters(deleteTransmitter(transmitters, deletingDevice.id))
    /\ deletingDevice' = Null
    /\ UNCHANGED <<showCreateModal, editingDevice, errors>>
    /\ unchangedByList

\* mutant: the pending search timeout is not cleared
searchEffect_noClear(term) == searchTimer' = searchTimer \cup {term}

\* the effect on [searchTerm] (App.jsx 619-623): the pending timeout is cleared and one
\* that will copy the term of this render is started
searchEffect(term) == searchTimer' = {term}

unchangedBySearch ==
    UNCHANGED <<appVars, wizardVars, padVars, reviewVars, rendered, dataVars,
                showCreateModal, editingDevice, deletingDevice, errors>>

\* onChange of the search box (App.jsx 661) with the render and the effect that follow
setSearchTerm ==
    /\ ListShown
    /\ ~ListModalOpen
    /\ \E term \in SearchInputs \ {searchTerm} :
          /\ searchTerm' = term
          /\ searchEffect(term)
    /\ UNCHANGED <<debouncedSearch, showFilters, filterType, filterStatus>>
    /\ unchangedBySearch

\* a 250 ms search timeout fires (App.jsx 621)
searchTimeout ==
    /\ \E term \in searchTimer :
          /\ debouncedSearch' = term
          /\ searchTimer' = searchTimer \ {term}
    /\ UNCHANGED <<searchTerm, showFilters, filterType, filterStatus>>
    /\ unchangedBySearch

\* Show Filters / Hide Filters (App.jsx 665)
toggleFilters ==
    /\ ListShown
    /\ ~ListModalOpen
    /\ showFilters' = ~showFilters
    /\ UNCHANGED <<searchTerm, debouncedSearch, filterType, filterStatus, searchTimer>>
    /\ unchangedBySearch

\* onChange of the type select (App.jsx 667)
setFilterType ==
    /\ ListShown
    /\ ~ListModalOpen
    /\ showFilters
    /\ \E option \in TypeOptions \ {filterType} : filterType' = option
    /\ UNCHANGED <<searchTerm, debouncedSearch, showFilters, filterStatus, searchTimer>>
    /\ unchangedBySearch

\* onChange of the status select (App.jsx 674)
setFilterStatus ==
    /\ ListShown
    /\ ~ListModalOpen
    /\ showFilters
    /\ \E option \in StatusOptions \ {filterStatus} : filterStatus' = option
    /\ UNCHANGED <<searchTerm, debouncedSearch, showFilters, filterType, searchTimer>>
    /\ unchangedBySearch

--------------------------------------------------------------------------
(* ReviewSubmit: completion status (App.jsx 863-883) *)

WhiteSpace == {" ", "\t", "\n", "\r"}

\* String.prototype.trim (App.jsx 873)
RECURSIVE trimStart(_)
trimStart(cs) ==
    IF cs # <<>> /\ Head(cs) \in WhiteSpace THEN trimStart(Tail(cs)) ELSE cs

RECURSIVE trimEnd(_)
trimEnd(cs) ==
    IF cs # <<>> /\ cs[Len(cs)] \in WhiteSpace
        THEN trimEnd(SubSeq(cs, 1, Len(cs) - 1))
        ELSE cs

trim(cs) == trimEnd(trimStart(cs))

\* value?.toString().trim() (App.jsx 873): undefined for null and undefined
toStringTrim(v) ==
    CASE v.t = "string" -> Str(trim(v.v))
      [] v.t = "boolean" -> Str(IF v.v THEN <<"t","r","u","e">>
                                       ELSE <<"f","a","l","s","e">>)
      [] OTHER -> Undefined

\* data.key of an object that may lack the key
Field(data, key) == IF key \in DOMAIN data THEN data[key] ELSE Undefined

\* data.checklist?.[stepId]?.[itemId] (App.jsx 869, 873)
checklistEntry(data, stepId, itemId) ==
    IF "checklist" \in DOMAIN data THEN Lookup(data.checklist, stepId, itemId)
                                  ELSE Undefined

\* mutant: the notes are not trimmed
itemCompleted_noTrim(data, step, item) ==
    CASE item.type = "checkbox" -> Truthy(checklistEntry(data, step.id, item.id))
      [] item.type = "file" -> "photos" \in DOMAIN data /\ Len(data.photos) > 0
      [] item.type = "textarea" -> Truthy(checklistEntry(data, step.id, item.id))
      [] item.type = "signature" -> Truthy(Field(data, "signature"))
      [] OTHER -> FALSE

\* the condition under which the loop counts an item (App.jsx 868-876)
itemCompleted(data, step, item) ==
    CASE item.type = "checkbox" -> Truthy(checklistEntry(data, step.id, item.id))
      [] item.type = "file" -> "photos" \in DOMAIN data /\ Len(data.photos) > 0
      [] item.type = "textarea" ->
            Truthy(toStringTrim(checklistEntry(data, step.id, item.id)))
      [] item.type = "signature" -> Truthy(Field(data, "signature"))
      [] OTHER -> FALSE

\* checklistSteps.reduce((acc, step) => acc + step.items.length, 0) (App.jsx 864)
RECURSIVE totalItems(_)
totalItems(steps) ==
    IF steps = <<>> THEN 0 ELSE Len(Head(steps).items) + totalItems(Tail(steps))

\* App.jsx 863-880
getCompletionStatus(data) ==
    [completed |-> Cardinality({<<i, j>> \in (DOMAIN checklistSteps) \X (1..4) :
                                  /\ j \in DOMAIN checklistSteps[i].items
                                  /\ itemCompleted(data, checklistSteps[i],
                                                   checklistSteps[i].items[j])}),
     total |-> totalItems(checklistSteps)]

\* the per-step count of the Checklist card (App.jsx 901): stepData is
\* inspectionData.checklist?.[step.id] || {}, and an item counts when its entry is
\* truthy, or it is the file item and there are photos, or it is the signature item and
\* there is a signature
completedInStep(data, step) ==
    LET stepData == IF "checklist" \in DOMAIN data /\ step.id \in DOMAIN data.checklist
                        THEN data.checklist[step.id] ELSE <<>>
    IN  Cardinality({j \in DOMAIN step.items :
           \/ Truthy(Field(stepData, step.items[j].id))
           \/ /\ step.items[j].type = "file"
              /\ "photos" \in DOMAIN data /\ Len(data.photos) > 0
           \/ /\ step.items[j].type = "signature"
              /\ Truthy(Field(data, "signature"))})

\* Math.round of the quotient a / b of two naturals, b > 0: halves round up
MathRound(a, b) == (2 * a + b) \div (2 * b)

\* App.jsx 883
completionPercentageOf(status) ==
    IF status.total # 0 THEN MathRound(status.completed * 100, status.total) ELSE 0

\* the render of ReviewSubmit (App.jsx 882-883, 901)
renderReview ==
    /\ currentView = "review"
    /\ LET data   == IF inspectionData = Null THEN <<>> ELSE inspectionData
           status == getCompletionStatus(data)
       IN  rendered' = [status |-> status,
                        completionPercentage |-> completionPercentageOf(status),
                        completedInStep |->
                            [n \in DOMAIN checklistSteps |->
                                completedInStep(data, checklistSteps[n])]]
    /\ UNCHANGED <<appVars, wizardVars, padVars, reviewVars, dataVars, listVars>>

\* photos attached to a reviewed inspection
MaxPhotoCount == 1
\* checkboxes of a reviewed inspection that were ticked and cleared again
MaxCleared == 1

\* the checkbox items of the wizard
CheckboxKeys ==
    {<<checklistSteps[i].id, checklistSteps[i].items[j].id>> :
        <<i, j>> \in {<<i, j>> \in (DOMAIN checklistSteps) \X (1..4) :
                         /\ j \in DOMAIN checklistSteps[i].items
                         /\ checklistSteps[i].items[j].type = "checkbox"}}

\* checklistData as the handlers build it (App.jsx 769, 773) from the values of the
\* checkboxes and the notes; Undefined stands for an item that was never touched
checklistOf(boxes, notes) ==
    LET value(s, i) == IF <<s, i>> \in CheckboxKeys THEN boxes[<<s, i>>]
                       ELSE IF i = "notes" THEN notes ELSE Undefined
        touched(st) == {st.items[j].id : j \in {j \in DOMAIN st.items :
                                             value(st.id, st.items[j].id) # Undefined}}
        steps == {n \in DOMAIN checklistSteps : touched(checklistSteps[n]) # {}}
    IN  [s \in {checklistSteps[n].id : n \in steps} |->
            LET st == checklistSteps[CHOOSE n \in steps : checklistSteps[n].id = s]
            IN  [i \in touched(st) |-> value(s, i)]]

\* the inspections a review can be given
ReviewInputs ==
    {InspectionOf(defaultTransmitters[1], checklistOf(boxes, notes),
                  [n \in 1..k |-> [id |-> n, name |-> "a.jpg", url |-> fileURL("a.jpg")]],
                  sig) :
        boxes \in {b \in [CheckboxKeys -> {Undefined, Bool(TRUE), Bool(FALSE)}] :
                     Cardinality({key \in CheckboxKeys : b[key] = Bool(FALSE)})
                        <= MaxCleared},
        notes \in {Undefined} \cup {Str(n) : n \in NoteInputs},
        k \in {0, MaxPhotoCount},
        sig \in {Null, toDataURL(0)}}

\* a ReviewSubmit that is given one of the inspections
ReviewInit ==
    /\ currentView = "review"
    /\ selectedDevice = defaultTransmitters[1]
    /\ inspectionData \in ReviewInputs
    /\ showSuccessModal = FALSE
    /\ entered = 0
    /\ WizardInit
    /\ isSubmitting = FALSE
    /\ submitted = 0
    /\ orphanSubmits = 0
    /\ resetTimers = 0
    /\ rendered = Undefined
    /\ DataInit
    /\ storage = Null
    /\ isOnline

--------------------------------------------------------------------------
(* Dashboard: counts (App.jsx 551-556, 569-583) *)

\* mutant: the warning count takes in the critical devices
Dashboard_warningOrCritical(list) ==
    [totalDevices |-> Len(list),
     activeDevices |-> Len(SelectSeq(list, LAMBDA t : t.status = "active")),
     warningDevices |-> Len(SelectSeq(list, LAMBDA t : t.status # "active"))]

\* the three counts of the Dashboard that depend on the list alone (App.jsx 553-555)
Dashboard(list) ==
    [totalDevices |-> Len(list),
     activeDevices |-> Len(SelectSeq(list, LAMBDA t : t.status = "active")),
     warningDevices |-> Len(SelectSeq(list, LAMBDA t : t.status = "warning"))]

--------------------------------------------------------------------------
(* InspectionChecklist: progress (App.jsx 802-803, 813-814) *)

\* mutant: the progress counts the steps that are behind
progressOf_stepsDone(step) == [num |-> step * 100, den |-> Len(checklistSteps)]

\* progress (App.jsx 803) as the fraction num / den: the width of the bar in per cent
progressOf(step) == [num |-> (step + 1) * 100, den |-> Len(checklistSteps)]

\* the label next to "Step n of 3" (App.jsx 813): Math.round(progress)
progressLabel(step) == MathRound(progressOf(step).num, progressOf(step).den)

--------------------------------------------------------------------------
(* Specifications *)

Init == AppInit /\ DataInit

\* the pages of the App: navigation between the views
Navigation ==
    \/ navDashboard
    \/ navDevices
    \/ handleDeviceSelect
    \/ detailBack
    \/ handleStartInspection
    \/ onCancel
    \/ reviewBack

\* the steps of the wizard, its signature and its completion
WizardSteps ==
    \/ nextStep
    \/ prevStep
    \/ startDrawing
    \/ draw
    \/ stopDrawing
    \/ onResize
    \/ clearCanvas
    \/ saveSignature
    \/ handleComplete

\* data entry into the checklist: these actions write checklistData, photos, photoClock
\* and pendingReads only, which the other actions copy (handleComplete) or reset (Show)
\* and never read
DataEntry ==
    \/ handleCheckboxChange
    \/ handleTextareaChange
    \/ handlePhotoUpload
    \/ readerOnload
    \/ removePhoto

\* submission of a reviewed inspection and its timers
Submission ==
    \/ handleSubmit
    \/ submitResolve
    \/ orphanSubmitResolve
    \/ resetTimeout
    \/ closeSuccessModal

\* the App from the dashboard to the submission of an inspection
Next ==
    \/ Navigation
    \/ WizardSteps
    \/ Submission

Spec == Init /\ [][Next]_vars

\* timers fire: a pending setTimeout callback is eventually run by the event loop
TimerFairness ==
    /\ WF_vars(submitResolve \/ orphanSubmitResolve)
    /\ WF_vars(resetTimeout)

FairSpec == Spec /\ TimerFairness

\* the App with the handlers of the wizard also run directly, whatever the buttons show
HandlerNext ==
    \/ Next
    \/ nextStepCall
    \/ prevStepCall
    \/ handleCompleteCall

HandlerSpec == Init /\ [][HandlerNext]_vars

\* the wizard with its data entry, from the device list to the last step
WizardNext ==
    \/ navDevices
    \/ handleDeviceSelect
    \/ handleStartInspection
    \/ onCancel
    \/ nextStep
    \/ prevStep
    \/ DataEntry

WizardSpec == Init /\ [][WizardNext]_vars

\* the device list with its modals over the DataProvider, whose timers are left to
\* ProviderSpec
CrudNext ==
    \/ navDashboard
    \/ navDevices
    \/ openCreate
    \/ openEdit
    \/ openDelete
    \/ handleClose
    \/ onSubmitForm
    \/ deleteCancel
    \/ handleDelete

CrudSpec == Init /\ [][CrudNext]_vars

\* a first session: localStorage has no entry, so the list is the default list
\* (App.jsx 104-108)
FirstInit == Init /\ storage = Null

\* the device list with its modals in a session that starts with the default list
FirstCrudSpec == FirstInit /\ [][CrudNext]_vars

\* the DataProvider with its timers, the network events and the calls of its consumers
ProviderNext ==
    \/ createTransmitterCall
    \/ updateTransmitterCall
    \/ deleteTransmitterCall
    \/ saveTimeout
    \/ handleOnline
    \/ handleOffline
    \/ syncTimeout

ProviderSpec == Init /\ [][ProviderNext]_vars

ProviderFairness ==
    /\ WF_vars(saveTimeout)
    /\ WF_vars(syncTimeout)

FairProviderSpec == ProviderSpec /\ ProviderFairness

\* the review rendered for every inspection it can be given
\* DeviceList: the search box and its timeout
SearchNext ==
    \/ navDashboard
    \/ navDevices
    \/ setSearchTerm
    \/ searchTimeout

SearchSpec == Init /\ [][SearchNext]_vars

\* a timeout that stays pending fires
SearchFairness == WF_vars(searchTimeout)

FairSearchSpec == SearchSpec /\ SearchFairness

\* DeviceList: search, filters and the deletion of devices
FilterNext ==
    \/ navDashboard
    \/ navDevices
    \/ setSearchTerm
    \/ searchTimeout
    \/ toggleFilters
    \/ setFilterType
    \/ setFilterStatus
    \/ openDelete
    \/ deleteCancel
    \/ handleDelete

FilterSpec == Init /\ [][FilterNext]_vars

\* DataProvider over any content of localStorage, with the page loaded again at any time;
\* nothing is rendered, and so nothing is called, after a render that threw
LoadNext ==
    \/ Mounted /\ createTransmitterCall
    \/ Mounted /\ updateTransmitterCall
    \/ Mounted /\ deleteTransmitterCall
    \/ Mounted /\ saveTimeout
    \/ Mounted /\ handleOnline
    \/ Mounted /\ handleOffline
    \/ Mounted /\ syncTimeout
    \/ reload

LoadSpec == LoadInit /\ [][LoadNext]_vars

ReviewNext == renderReview

ReviewSpec == ReviewInit /\ [][ReviewNext]_vars

--------------------------------------------------------------------------
(* Claims *)

ResetDone ==
    /\ currentView = "dashboard"
    /\ selectedDevice = Null
    /\ inspectionData = Null
    /\ ~showSuccessModal

\* C1: once Submit Inspection has been pressed (a submit is in flight), the success
\* modal is eventually shown and after it the app reaches currentView = dashboard,
\* selectedDevice = null, inspectionData = null, showSuccessModal = false; a submit
\* has no other outcome. This holds whatever the user does meanwhile, hence also when
\* no further input occurs.
C1_SubmitSucceeds == isSubmitting ~> (showSuccessModal /\ <>ResetDone)

\* C1 witness: the submit of the review on screen has resolved: the modal is shown
\* and the reset timeout is pending
C1_Witness ==
    /\ currentView = "review"
    /\ showSuccessModal
    /\ ~isSubmitting
    /\ orphanSubmits = 0
    /\ resetTimers = 1

SignatureRequiredAlert == "Signature is required before completing inspection"

\* C2: the review is entered only from the wizard, with a saved signature that is the
\* one stored in inspectionData, and through the Complete button only on the last
\* step; handleComplete run without a signature calls no callback and leaves
\* currentStep, checklistData, photos, the view and inspectionData unchanged.
C2_SignatureRequired ==
    [][ /\ (currentView # "review" /\ currentView' = "review")
            => /\ currentView = "inspection"
               /\ Truthy(signature)
               /\ inspectionData'.signature = signature
               /\ Next => currentStep = LastStep
        /\ (handleCompleteCall /\ ~Truthy(signature))
            => UNCHANGED <<currentStep, checklistData, photos, signature, currentView,
                           selectedDevice, inspectionData>>
      ]_vars

\* C2 witness: handleComplete has run without a signature and the wizard is still shown
C2_Witness ==
    /\ currentView = "inspection"
    /\ signature = Null
    /\ lastAlert = SignatureRequiredAlert

\* C3: the wizard has the three steps visual, functional, documentation in this order;
\* currentStep stays in 0..2; Next adds exactly 1 except on the last step, where it
\* changes nothing, and Previous subtracts exactly 1 except on step 0, where it
\* changes nothing; the step changes in no other way while the wizard is shown.
C3_WizardLinear ==
    /\ [](/\ [i \in DOMAIN checklistSteps |-> checklistSteps[i].id]
              = <<"visual", "functional", "documentation">>
          /\ currentStep \in 0..2
          /\ (currentView = "inspection" /\ currentStep < 2)
                => ENABLED (nextStepCall /\ currentStep' = currentStep + 1)
          /\ (currentView = "inspection" /\ currentStep > 0)
                => ENABLED (prevStepCall /\ currentStep' = currentStep - 1))
    /\ [][ /\ nextStepCall
              => currentStep' = IF currentStep = 2 THEN 2 ELSE currentStep + 1
           /\ prevStepCall
              => currentStep' = IF currentStep = 0 THEN 0 ELSE currentStep - 1
           /\ currentStep' # currentStep /\ currentView' = "inspection"
                 /\ currentView = "inspection"
              => nextStepCall \/ prevStepCall
         ]_vars

\* C3 witness: the wizard shows its last step
C3_Witness ==
    /\ currentView = "inspection"
    /\ currentStep = 2
    /\ currentStepData(currentStep).id = "documentation"

\* C4: the review is entered only by completing the wizard, a submit is started only on
\* the review and the submit callback runs only for a submit that was started there;
\* whenever the review is shown, inspectionData is not null, has a non-empty
\* signature and names the selected device.
C4_ReviewBeforeSubmit ==
    /\ [](currentView = "review"
             => /\ inspectionData # Null
                /\ Truthy(inspectionData.signature)
                /\ selectedDevice # Null
                /\ inspectionData.deviceId = selectedDevice.id)
    /\ [][ /\ (currentView # "review" /\ currentView' = "review") => handleComplete
           /\ (~isSubmitting /\ isSubmitting') => currentView = "review"
           /\ resetTimers' > resetTimers => (isSubmitting \/ orphanSubmits > 0)
         ]_vars

\* C4 witness: a submit is in flight on the review
C4_Witness ==
    /\ currentView = "review"
    /\ isSubmitting

\* C6: Next leaves a step only when the data entered so far passes the Zod schema of
\* an inspection (README: Zod schema validation per step).
C6_NextValidates ==
    [][ (nextStep /\ currentStep' = currentStep + 1)
            => inspectionSchemaOk(
                   InspectionOf(selectedDevice, checklistData, photos, signature))
      ]_vars

\* the items of the checklist the claim counts as done, counted from the data itself
DoneItems(data) ==
    Cardinality({key \in CheckboxKeys :
                    /\ key[1] \in DOMAIN data.checklist
                    /\ key[2] \in DOMAIN data.checklist[key[1]]
                    /\ data.checklist[key[1]][key[2]] = Bool(TRUE)})
    + (IF Len(data.photos) >= 1 THEN 1 ELSE 0)
    + (IF /\ "documentation" \in DOMAIN data.checklist
          /\ "notes" \in DOMAIN data.checklist["documentation"]
          /\ \E n \in DOMAIN data.checklist["documentation"]["notes"].v :
                data.checklist["documentation"]["notes"].v[n] \notin WhiteSpace
          THEN 1 ELSE 0)
    + (IF data.signature # Null THEN 1 ELSE 0)

\* C5: what the review renders for an inspection: total = 11, completed = the number of
\* done items (a checkbox stored as true, at least one photo, notes that are not blank,
\* a signature that is present), 0 <= completed <= total, and a percentage that is the
\* integer nearest to 100 * completed / total, within 0..100, and 100 iff all 11 items
\* are done.
C5_CompletionStatus ==
    rendered # Undefined =>
        /\ rendered.status.total = 11
        /\ rendered.status.completed = DoneItems(inspectionData)
        /\ rendered.status.completed \in 0..rendered.status.total
        /\ rendered.completionPercentage \in 0..100
        /\ 2 * (11 * rendered.completionPercentage - 100 * rendered.status.completed) <= 11
        /\ 2 * (100 * rendered.status.completed - 11 * rendered.completionPercentage) < 11
        /\ rendered.completionPercentage = 100 <=> rendered.status.completed = 11

\* C5 witness: a review of an inspection whose notes are blank and whose other ten
\* items are done has been rendered
C5_Witness ==
    /\ rendered # Undefined
    /\ rendered.status.completed = 10
    /\ rendered.completionPercentage = 91
    /\ Lookup(inspectionData.checklist, "documentation", "notes") = Str(<<" ">>)

\* C7: a create with accepted values appends the form data as the last entry, returns
\* {success: true} and closes the modal; a create with a rejected value leaves the list
\* unchanged and returns {success: false, errors} where errors has an entry, not
\* empty, for exactly the fields that hold a rejected value, which the modal then shows.
C7_CreateValidated ==
    /\ [][ (showCreateModal /\ editingDevice = Null) =>
            \A data \in FormInputs :
              handleSubmitForm(data) =>
                 IF Defects(data) = {}
                    THEN /\ transmitters' = Append(transmitters, data)
                         /\ ~showCreateModal'
                         /\ errors' = <<>>
                    ELSE /\ transmitters' = transmitters
                         /\ showCreateModal'
                         /\ DOMAIN errors' = Defects(data)
                         /\ \A k \in Defects(data) : Len(errors'[k]) >= 1
         ]_vars
    /\ [](showCreateModal => \A data \in FormInputs :
             LET r == createTransmitter(transmitters, data)
             IN  IF Defects(data) = {}
                    THEN r.result = [success |-> TRUE]
                    ELSE /\ r.result.success = FALSE
                         /\ DOMAIN r.result.errors = Defects(data))

\* C7 witness: a device has been created as the fourth entry of the list
C7_Witness ==
    /\ ops = 1
    /\ Len(transmitters) = Len(defaultTransmitters) + 1
    /\ transmitters[Len(transmitters)] \in GoodForms
    /\ ~showCreateModal

\* C8: an update with accepted values replaces every entry whose id is the id of the
\* edited device by the form data and leaves the other entries, the order and the
\* length as they were; an update with a rejected value leaves the list unchanged and
\* reports the rejected fields.
C8_UpdateValidated ==
    /\ [][ editingDevice # Null =>
             \A data \in EditInputs(editingDevice) :
                handleSubmitForm(data) =>
                   IF Defects(data) = {}
                      THEN /\ Len(transmitters') = Len(transmitters)
                           /\ \A i \in DOMAIN transmitters :
                                 /\ transmitters[i].id = editingDevice.id
                                       => transmitters'[i] = data
                                 /\ transmitters[i].id # editingDevice.id
                                       => transmitters'[i] = transmitters[i]
                           /\ editingDevice' = Null
                      ELSE /\ transmitters' = transmitters
                           /\ editingDevice' = editingDevice
                           /\ DOMAIN errors' = Defects(data)
         ]_vars
    /\ [](editingDevice # Null => \A data \in EditInputs(editingDevice) :
             LET r == updateTransmitter(transmitters, editingDevice.id, data)
             IN  IF Defects(data) = {}
                    THEN r.result = [success |-> TRUE]
                    ELSE /\ r.result.success = FALSE
                         /\ r.list = transmitters)

\* C8 witness: an update has replaced both entries that shared the id
C8_Witness ==
    /\ ops = 1
    /\ Len(transmitters) = 2
    /\ transmitters[1] = transmitters[2]
    /\ editingDevice = Null

\* the positions of a list whose entry has another id than id
Kept(list, id) == {i \in DOMAIN list : list[i].id # id}

\* the list without the entries whose id is id, the others in their order
Without(list, id) ==
    [n \in 1..Cardinality(Kept(list, id)) |->
        list[CHOOSE k \in Kept(list, id) :
                Cardinality({j \in Kept(list, id) : j <= k}) = n]]

\* C9: deleteTransmitter(id) removes exactly the entries with the id and keeps the
\* others in their order, an absent id changes nothing and a second delete changes
\* nothing more; the list gets shorter only by the Delete button of the confirmation
\* modal, which removes the entries with the id of the device the modal names, and
\* Cancel leaves the list unchanged.
C9_DeleteExact ==
    /\ [](\A id \in IdArgs \cup {t.id : t \in Range(transmitters)} :
             /\ deleteTransmitter(transmitters, id) = Without(transmitters, id)
             /\ deleteTransmitter(deleteTransmitter(transmitters, id), id)
                   = deleteTransmitter(transmitters, id)
             /\ (\A t \in Range(transmitters) : t.id # id)
                   => deleteTransmitter(transmitters, id) = transmitters)
    /\ [][ /\ handleDelete
              => /\ transmitters' = Without(transmitters, deletingDevice.id)
                 /\ deletingDevice' = Null
           /\ deleteCancel => transmitters' = transmitters
           /\ Len(transmitters') < Len(transmitters)
              => deletingDevice # Null /\ handleDelete
         ]_vars

\* C9 witness: the confirmed delete has removed both entries that shared the id
C9_Witness ==
    /\ ops = 1
    /\ transmitters = <<>>
    /\ deletingDevice = Null
    /\ currentView = "devices"

\* localStorage['transmitters'] holds the serialization of the list
Persisted == storage = Str(JSONstringify(transmitters))

--------------------------------------------------------------------------
(* C11: initial load with fallback *)

\* v is a list of transmitters: every entry has the fields of a transmitter
IsTransmitterList(v) == \A i \in DOMAIN v : FormFields \subseteq DOMAIN v[i]

\* C11: the transmitter list is a list of transmitters from the start on, whatever
\* localStorage held when the page was loaded.  Violated: an entry whose text is JSON
\* but no list of transmitters (the text [null]) is returned by JSON.parse as it is.
C11_LoadsList == IsTransmitterList(transmitters)

--------------------------------------------------------------------------
(* C12: offline sync promise *)

\* C12: going online with pendingSync true starts a sync, and whenever the app
\* is online with pendingSync true, pendingSync later becomes false and the banner
\* disappears, unless the app goes offline first; so pendingSync never stays true for
\* ever while the app is online.
C12_SyncCompletes ==
    /\ [][(~isOnline /\ isOnline' /\ pendingSync) => syncTimers' = syncTimers + 1]_vars
    /\ (isOnline /\ pendingSync)
          ~> (~isOnline \/ (~pendingSync /\ OfflineBanner(isOnline, pendingSync) = Null))

\* C12 witness: the app is back online with changes flagged and a sync under way
C12_Witness == isOnline /\ pendingSync /\ syncTimers > 0

--------------------------------------------------------------------------
(* C13: offline banner visibility *)

\* C13: the banner is hidden iff isOnline is true and pendingSync is false; when shown
\* it displays the offline message iff isOnline is false and the message
\* "Syncing data..." iff isOnline is true and pendingSync is true.
C13_BannerVisibility ==
    LET banner == OfflineBanner(isOnline, pendingSync) IN
    /\ banner = Null <=> (isOnline /\ ~pendingSync)
    /\ banner # Null =>
          /\ banner.text = "You are offline. Changes will sync when reconnected."
                <=> ~isOnline
          /\ banner.text = "Syncing data..." <=> (isOnline /\ pendingSync)

\* C13 witness: the banner shows the message of a sync
C13_Witness ==
    /\ isOnline /\ pendingSync
    /\ OfflineBanner(isOnline, pendingSync) # Null
    /\ OfflineBanner(isOnline, pendingSync).text = "Syncing data..."

--------------------------------------------------------------------------
(* C14: debounced search *)

\* C14: each change of searchTerm cancels the pending timeout and starts one for the new
\* term, so the only timeout ever pending is that of the current term; debouncedSearch
\* only ever takes the value searchTerm holds (never an earlier term after a later one
\* was typed); and a term that stays in the search box eventually is debouncedSearch.
C14_DebouncedSearch ==
    /\ [](searchTimer \subseteq {searchTerm})
    /\ [][(searchTerm' # searchTerm /\ currentView' = "devices")
             => searchTimer' = {searchTerm'}]_vars
    /\ [][debouncedSearch' # debouncedSearch => debouncedSearch' = searchTerm']_vars
    /\ \A term \in SearchInputs :
          (searchTerm = term) ~> (debouncedSearch = term \/ searchTerm # term)

\* C14 witness: a term was typed and its timeout has fired
C14_Witness ==
    /\ searchTerm = <<"p","t">>
    /\ debouncedSearch = searchTerm
    /\ searchTimer = {}

--------------------------------------------------------------------------
(* C15: device filtering *)

\* a and b are the same character up to the case of a letter
SameCharacter(a, b) ==
    \/ a = b
    \/ \E k \in DOMAIN UpperCase : {a, b} = {UpperCase[k], LowerCase[k]}

\* part occurs in cs at some position, the case of letters ignored
OccursIn(part, cs) ==
    \E k \in 0..(Len(cs) - Len(part)) :
        \A i \in DOMAIN part : SameCharacter(part[i], cs[k + i])

\* device is wanted by the search term and the two filters
Wanted(device) ==
    /\ OccursIn(debouncedSearch, device.name) \/ OccursIn(debouncedSearch, device.id)
    /\ filterType # "all" => device.type = filterType
    /\ filterStatus # "all" => device.status = filterStatus

\* the positions of the wanted devices in the transmitter list
WantedAt == {j \in DOMAIN transmitters : Wanted(transmitters[j])}

\* C15: filteredDevices is the transmitter list restricted to the wanted devices, in the
\* order of the list and each position taken once; with an empty search term and both
\* filters 'all' it is the whole list; 'No devices found' is shown iff it is empty.
C15_FilteredDevices ==
    LET shown == FilteredDevices
        wanted == WantedAt
    IN  /\ Len(shown) = Cardinality(wanted)
        /\ \A i \in DOMAIN shown :
              shown[i] = transmitters[CHOOSE j \in wanted :
                                         Cardinality({k \in wanted : k < j}) = i - 1]
        /\ (debouncedSearch = <<>> /\ filterType = "all" /\ filterStatus = "all")
              => shown = transmitters
        /\ NoDevicesFound <=> shown = <<>>

\* C15 witness: a search term typed in lower case and a status filter leave one of several
\* devices
C15_Witness ==
    /\ debouncedSearch = <<"p","t">>
    /\ filterStatus = "active"
    /\ Len(transmitters) > 1
    /\ Len(FilteredDevices) = 1

--------------------------------------------------------------------------
(* C16: signature capture state machine *)

\* C16: a segment is added to the canvas only during a stroke, that is by a move after
\* a start event and before the next stop event; a move while isDrawing is false draws
\* nothing; a start event sets isDrawing and every stop event sets it to false.
C16_StrokeOnly ==
    /\ [][canvas' > canvas => (isDrawing /\ isDrawing' /\ canvas' = canvas + 1)]_vars
    /\ [][(isDrawing' /\ ~isDrawing) => (canvas' = canvas /\ ENABLED startDrawing)]_vars
    /\ [](PadUsable =>
            /\ ENABLED (stopDrawing /\ ~isDrawing')
            /\ ~ENABLED (stopDrawing /\ isDrawing')
            /\ ~isDrawing => ~ENABLED (draw /\ canvas' # canvas))

\* C16 witness: a stroke was started, drew a segment and was stopped
C16_Witness == PadUsable /\ canvas > 0 /\ ~isDrawing

--------------------------------------------------------------------------
(* C17: photo upload of multiple attachments *)

\* a read of file f has finished: one entry for f is added at the end of the list and
\* every entry that was there is kept
Loads(f) ==
    /\ pendingReads[f] > 0
    /\ pendingReads' = [pendingReads EXCEPT ![f] = @ - 1]
    /\ Len(photos') = Len(photos) + 1
    /\ SubSeq(photos', 1, Len(photos)) = photos
    /\ photos'[Len(photos')].name = f
    /\ photos'[Len(photos')].url = fileURL(f)

\* C17: every read in flight can finish, in any order; a finished read adds exactly one
\* entry for its file and loses none, whatever was loaded or removed in between;
\* removePhoto(id) removes exactly the entries with that id and keeps the others in
\* order; the list of a wizard changes in no other way, so after all N reads of an
\* upload it holds N new entries, one per file, but for those removed by their own id.
C17_PhotoUpload ==
    /\ [](currentView = "inspection" =>
            \A f \in Files : pendingReads[f] > 0 => ENABLED (readerOnload /\ Loads(f)))
    /\ [](\A photo \in Range(photos) :
             removePhotoOf(photos, photo.id) = Without(photos, photo.id))
    /\ [][photos' # photos =>
             \/ \E f \in Files : Loads(f)
             \/ /\ pendingReads' = pendingReads
                /\ \E photo \in Range(photos) : photos' = Without(photos, photo.id)
             \/ currentView' # currentView /\ photos' = <<>>]_vars
    /\ [][(pendingReads' # pendingReads /\ photos' = photos) =>
             \/ \A f \in Files : pendingReads'[f] >= pendingReads[f]
             \/ currentView' # currentView /\ \A f \in Files : pendingReads'[f] = 0]_vars

\* C17 witness: the two files of one upload were read, the second before the first
C17_Witness ==
    /\ \A f \in Files : pendingReads[f] = 0
    /\ Len(photos) = 2
    /\ photos[1].name = "b.jpg"
    /\ photos[2].name = "a.jpg"

--------------------------------------------------------------------------
(* C18: wizard progress tracking *)

\* C18: the progress shown is (currentStep + 1) / 3 of 100 %: it is greater than 0, it
\* is strictly increasing in currentStep, as a bar and as a rounded label, and it is
\* 100 % iff the wizard is on the last step; Complete is offered iff currentStep is the
\* last step and Next otherwise; Previous is disabled iff currentStep = 0.
C18_Progress ==
    WizardShown =>
        LET progress == progressOf(currentStep) IN
        /\ progress.num * 3 = (currentStep + 1) * 100 * progress.den
        /\ progress.num > 0 /\ progressLabel(currentStep) > 0
        /\ \A earlier \in 0..LastStep :
              earlier < currentStep =>
                 /\ progressOf(earlier).num * progress.den
                       < progress.num * progressOf(earlier).den
                 /\ progressLabel(earlier) < progressLabel(currentStep)
        /\ progress.num = 100 * progress.den <=> currentStep = LastStep
        /\ progressLabel(currentStep) = 100 <=> currentStep = LastStep
        /\ CompleteOffered <=> currentStep = LastStep
        /\ ENABLED nextStep <=> currentStep # LastStep
        /\ ENABLED handleComplete => currentStep = LastStep
        /\ PreviousDisabled <=> currentStep = 0
        /\ ENABLED prevStep <=> currentStep # 0

\* C18 witness: the wizard is on its second step and shows 67%
C18_Witness == WizardShown /\ currentStep = 1 /\ progressLabel(currentStep) = 67

--------------------------------------------------------------------------
(* C19: dashboard counts *)

\* the number of entries of list with the status
CountOf(list, status) == Cardinality({i \in DOMAIN list : list[i].status = status})

\* the counts of the Dashboard over list are those of list
CountsAgree(list) ==
    /\ Dashboard(list).totalDevices = Len(list)
    /\ Dashboard(list).activeDevices = CountOf(list, "active")
    /\ Dashboard(list).warningDevices = CountOf(list, "warning")
    /\ Dashboard(list).activeDevices + Dashboard(list).warningDevices
          <= Dashboard(list).totalDevices

\* C19: Total is the length of the transmitter list, Active the number of entries with
\* status 'active' and Warning the number with status 'warning', so Active + Warning
\* <= Total; after a create, update or delete the counts are those of the resulting list.
C19_DashboardCounts ==
    /\ [] CountsAgree(transmitters)
    /\ [][transmitters' # transmitters => CountsAgree(transmitters')]_vars

\* C19 witness: the dashboard is shown after a device was added to the three defaults
C19_Witness ==
    /\ currentView = "dashboard"
    /\ ops > 0
    /\ Dashboard(transmitters) =
          [totalDevices |-> 4, activeDevices |-> 2, warningDevices |-> 1]

--------------------------------------------------------------------------
(* C20: signature Save / Clear bookkeeping *)

\* C20: Save sets the signature of the wizard to the exported bitmap of the canvas,
\* which is never null; Clear erases the canvas and sets the signature to null; the
\* signature of a wizard changes in no other way, so it is non-null iff the last of its
\* Save and Clear actions was a Save; and while it is null the Complete button is
\* disabled and no completion happens.
C20_SaveClear ==
    /\ [](PadUsable =>
            /\ ENABLED (saveSignature /\ signature' = toDataURL(canvas) /\ Truthy(signature'))
            /\ ~ENABLED (saveSignature /\ signature' # toDataURL(canvas))
            /\ ENABLED (clearCanvas /\ signature' = Null /\ canvas' = 0)
            /\ ~ENABLED (clearCanvas /\ ~(signature' = Null /\ canvas' = 0)))
    /\ [][signature' # signature =>
             \/ PadUsable /\ signature' = toDataURL(canvas) /\ canvas' = canvas
             \/ PadUsable /\ signature' = Null /\ canvas' = 0
             \/ currentView' # "inspection" /\ signature' = Null]_vars
    /\ []((WizardShown /\ CompleteOffered /\ signature = Null) => CompleteDisabled)
    /\ [][(currentView = "inspection" /\ currentView' = "review") => Truthy(signature)]_vars

\* C20 witness: a signature was saved and then cleared on the last step
C20_Witness ==
    /\ WizardShown /\ CompleteOffered /\ CompleteDisabled
    /\ signature = Null
    /\ lastAlert = "Signature saved successfully!"

--------------------------------------------------------------------------
(* C21: the data of the wizard survives step navigation *)

\* the ids of the steps and of their items (App.jsx 756-760)
StepIds == {step.id : step \in Range(checklistSteps)}
ItemIds == UNION {{it.id : it \in Range(step.items)} : step \in Range(checklistSteps)}

\* the values a checkbox or the textarea hands to its handler (App.jsx 824, 827)
EntryValues == {Bool(TRUE), Bool(FALSE)} \cup {Str(n) : n \in NoteInputs}

\* the entries of one step of the data, none if the step has no object yet
StepEntries(cd, stepId) == IF stepId \in DOMAIN cd THEN cd[stepId] ELSE <<>>

\* new is old with the entry (stepId, itemId) set to value and nothing else changed: the
\* other steps are the same objects, and the step holds what it held and the entry
OnlyEntrySet(old, new, stepId, itemId, value) ==
    /\ DOMAIN new = DOMAIN old \cup {stepId}
    /\ \A s \in DOMAIN old \ {stepId} : new[s] = old[s]
    /\ DOMAIN new[stepId] = DOMAIN StepEntries(old, stepId) \cup {itemId}
    /\ \A k \in DOMAIN StepEntries(old, stepId) \ {itemId} : new[stepId][k] = old[stepId][k]
    /\ new[stepId][itemId] = value

\* C21: within one wizard, a step that moves currentStep (Next, Previous) leaves
\* checklistData, photos and signature as they were; a step that changes checklistData
\* (handleCheckboxChange, handleTextareaChange) sets one entry of the step on screen and
\* leaves every other entry, photos, signature and currentStep as they were; and the
\* updater of the two handlers, called with any (stepId, itemId, v) on the data of any
\* reachable state, sets exactly that entry.
C21_DataSurvives ==
    /\ [](\A s \in StepIds, k \in ItemIds, v \in EntryValues :
             OnlyEntrySet(checklistData, SetEntry(checklistData, s, k, v), s, k, v))
    /\ [][(currentView = "inspection" /\ currentView' = "inspection") =>
             /\ currentStep' # currentStep =>
                   /\ checklistData' = checklistData
                   /\ photos' = photos
                   /\ signature' = signature
             /\ checklistData' # checklistData =>
                   /\ \E k \in ItemIds, v \in EntryValues :
                         OnlyEntrySet(checklistData, checklistData',
                                      currentStepData(currentStep).id, k, v)
                   /\ photos' = photos
                   /\ signature' = signature
                   /\ currentStep' = currentStep]_vars

\* C21 witness: a box ticked on the first step is still ticked on the second step, after
\* Next and after a box of the second step was ticked
C21_Witness ==
    /\ currentView = "inspection"
    /\ currentStep = 1
    /\ Lookup(checklistData, "visual", "housing") = Bool(TRUE)
    /\ Lookup(checklistData, "functional", "display") = Bool(TRUE)

--------------------------------------------------------------------------
(* C22: at-most-once submission *)

\* C22: for the inspection under review, handleSubmit is started at most once, and so
\* its continuation calls handleSubmitInspection at most once (every started submit
\* resolves after 1200 ms and then calls onSubmit, App.jsx 858-859), whatever the order
\* of Submit clicks, closing the modal, navigation and the two timers.
C22_SubmitOnce == submitted <= 1

--------------------------------------------------------------------------
(* C23: the delayed reset and the session of the user *)

\* a 1200 ms timer of a submission runs its callback: the continuation of handleSubmit
\* calls handleSubmitInspection, or the reset timeout fires (App.jsx 858-859, 924-929)
SubmitTimerFires == resetTimers' # resetTimers

\* the user has left the review of the submitted inspection and is on the detail page of
\* a selected device or in a newly started wizard
NewSession == currentView \in {"device-detail", "inspection"}

\* C23: a timer of a submission that fires after the user has selected a device or
\* started an inspection again leaves currentView, selectedDevice, inspectionData and
\* showSuccessModal of that session as they are.
C23_ResetOwnSession ==
    [][(SubmitTimerFires /\ NewSession) =>
          /\ currentView' = currentView
          /\ selectedDevice' = selectedDevice
          /\ inspectionData' = inspectionData
          /\ showSuccessModal' = showSuccessModal]_vars

--------------------------------------------------------------------------
(* C24: unsynced offline changes stay flagged *)

\* C24: pendingSync goes from true to false only while the app is online; a change of
\* the list made offline leaves pendingSync true; and offline, pendingSync stays true
\* until an online event.
C24_OfflineFlagged ==
    [][/\ (pendingSync /\ ~pendingSync') => isOnline
       /\ (transmitters' # transmitters /\ ~isOnline) => pendingSync'
       /\ (pendingSync /\ ~isOnline /\ ~isOnline') => pendingSync']_vars

--------------------------------------------------------------------------
(* C25: the view and the selection agree *)

\* the views that render the selected device (App.jsx 940-942)
DeviceViews == {"device-detail", "inspection", "review"}

\* C25: currentView is always one of the five views; whenever the detail page, the
\* wizard or the review is shown a device is selected, also after the delayed reset and
\* after clicks in the bottom navigation; and the wizard is entered only from the detail
\* page (Start Inspection) or from the review (Back).
C25_ViewSelection ==
    /\ [](currentView \in Views)
    /\ [](currentView \in DeviceViews => selectedDevice # Null)
    /\ [][(currentView # "inspection" /\ currentView' = "inspection") =>
             currentView \in {"device-detail", "review"}]_vars

\* C25 witness: a wizard is on screen for a selected device while the reset timeout of
\* an earlier submission is pending
C25_Witness ==
    /\ currentView = "inspection"
    /\ selectedDevice # Null
    /\ resetTimers > 0

--------------------------------------------------------------------------
(* C26: device ids are unique *)

\* no two entries of the list have the same id
UniqueIds(list) ==
    \A i, j \in DOMAIN list : list[i].id = list[j].id => i = j

\* C26: in a session that starts with the default list (FirstCrudSpec), no two entries
\* of the list ever have the same id, whatever is created, updated and deleted.
C26_UniqueIds == UniqueIds(transmitters)

--------------------------------------------------------------------------
(* C27: the entries of the list satisfy transmitterSchema *)

\* every entry of the list passes transmitterSchema.parse
AllValid(list) == \A i \in DOMAIN list : transmitterSchemaOk(list[i])

\* C27: in a session that starts with the default list (FirstCrudSpec), every entry of
\* the list satisfies transmitterSchema at all times, whatever forms are submitted,
\* accepted or rejected, and whatever is deleted; in particular its id matches XX-000
\* and its type and status are among the listed values.
C27_SchemaValid ==
    /\ AllValid(transmitters)
    /\ \A i \in DOMAIN transmitters :
          /\ IdPattern(transmitters[i].id)
          /\ transmitters[i].type \in {"Pressure", "Flow", "Level", "Temperature"}
          /\ transmitters[i].status \in {"active", "warning", "critical"}

\* C27 witness: a device was added to the three defaults by an accepted form, and the
\* form submitted after it was rejected
C27_Witness ==
    /\ Len(transmitters) = 4
    /\ SubSeq(transmitters, 1, 3) = defaultTransmitters
    /\ showCreateModal
    /\ DOMAIN errors # {}

--------------------------------------------------------------------------
(* C28: the two completion counts of the review *)

\* the sum of a sequence of numbers
RECURSIVE SumOf(_)
SumOf(q) == IF q = <<>> THEN 0 ELSE Head(q) + SumOf(Tail(q))

\* C28: for every inspection the review is given, the per-step counts of the Checklist
\* card add up to the completed count of the Progress card.
C28_CountsAgree ==
    rendered # Undefined => SumOf(rendered.completedInStep) = rendered.status.completed

=========================================================================
